---- MODULE Spec2Model ----
(***************************************************************************)
(* A model of fluxtoimd: the parametric CRC engine (crc.py), the ADPLL    *)
(* data separator (adpll.py), the track decoder dump_track and the        *)
(* track/side loop of fluxtoimd.py.                                       *)
(*                                                                         *)
(* Each component has its own specification over its own variables; the    *)
(* variables of the other components stay at their idle values.            *)
(*   SpecCRC    one CRC object: make_table / reset / comp / get            *)
(*   SpecADPLL  one ADPLL over a flux-delta iterator: __init__ / __next__  *)
(*   SpecRun    one run of fluxtoimd.py: the track/side loop, dump_track   *)
(*              on the channel bits of each block, ImageDisk.write_sector  *)
(*   SpecRead   one flux image read by DFI, KyroFluxStream or SCP          *)
(***************************************************************************)
EXTENDS Integers, Sequences, FiniteSets, TLC

VARIABLES
    crc_param,    \* CRC.param: the CRCParam record of the object
    crc_reg,      \* CRC.reg
    crc_tables,   \* CRC.tables: width -> table (a function 0..2^w-1 -> value)
    crc_cache,    \* CRC.cache: bit count -> table width chosen (0: bit-serial)
    crc_fed,      \* history: the bytes given to comp since the last reset
    crc_sealed,   \* history: TRUE when crc_fed is a message followed by its own CRC
    adpll,        \* the ADPLL object: its fields, times in picoseconds
    adpll_pc,     \* where the ADPLL is: "new", "idle" (between __next__ calls),
                  \* "loop" (in the while loop of __next__), "stopped"
                  \* (StopIteration left __next__), "init_failed"
                  \* (StopIteration left __init__)
    adpll_in,     \* history: the deltas the flux iterator has yielded
    adpll_out,    \* history: the bits __next__ has returned
    args,         \* the parsed command line: modulation, sides, tracks, index,
                  \* verbose
    run_pc,       \* where the run is: "loop" (at the head of the track/side
                  \* loop), "ids" (in dump_track's loop over the ID marks),
                  \* "done" (after imd.write), "crashed" (an exception ended it)
    run_error,    \* the exception that ended the run, "" when none
    iter,         \* the number of finished turns of the track/side loop
    dt_block,     \* history: the name of the layout of the block being decoded
    dt_bits,      \* dump_track's bits
    dt_locs,      \* dump_track's id_address_mark_locs
    dt_i,         \* the position in dt_locs of the next id_pos
    dt_sectors,   \* dump_track's sectors: entries [key, deleted, has_data, data]
    dt_events,    \* history: what each turn of the ID loop did
    imd_tracks,   \* ImageDisk.tracks
    ws_calls,     \* history: the write_sector calls made
    decoded,      \* history: the (track, side) pairs dump_track returned for
    totals,       \* bad_sectors, data_sectors, deleted_sectors, total_sectors
    rd_format,    \* the reader: "dfi", "kfsf" or "scp" ("" when none runs)
    rd_pc,        \* where the reader is: "open", "blocks" (in its loop),
                  \* "done" (the constructor returned), "failed" (an
                  \* exception left the constructor)
    rd_error,     \* the exception that left the constructor, "" when none
    rd_st,        \* the reader's own fields (version, counters, flags)
    rd_blocks,    \* blocks: (cylinder, head, sector) -> flux block
    rd_reads      \* history: the reads made: what was asked for and how many
                  \* bytes the file gave

crcVars == <<crc_param, crc_reg, crc_tables, crc_cache, crc_fed, crc_sealed>>
adpllVars == <<adpll, adpll_pc, adpll_in, adpll_out>>

runVars == <<args, run_pc, run_error, iter, dt_block, dt_bits, dt_locs, dt_i,
             dt_sectors, dt_events, imd_tracks, ws_calls, decoded, totals>>

readVars == <<rd_format, rd_pc, rd_error, rd_st, rd_blocks, rd_reads>>

\* SpecIMD: an ImageDisk object is filled by write_sector calls (imd_tracks),
\* written to a file (imd_file, the bytes) and the file is read into a new
\* ImageDisk object (imd_reread, its tracks).
VARIABLES imd_pc, imd_error, imd_file, imd_reread

imdVars == <<imd_pc, imd_error, imd_file, imd_reread>>

\* The variables of a run but the image's tracks.
dumpVars == <<args, run_pc, run_error, iter, dt_block, dt_bits, dt_locs, dt_i,
              dt_sectors, dt_events, ws_calls, decoded, totals>>

vars == <<crcVars, adpllVars, runVars, readVars, imdVars>>

----------------------------------------------------------------------------
(* Integer helpers.  TLC's integers are 32-bit signed, so a value of the    *)
(* CRC register's width (up to 32 bits: reg, poly, init, xorot, a table     *)
(* entry) is a tuple of its bits, most significant first; data units and    *)
(* table indexes (at most 8 bits here) are integers.                        *)

Pow2(n) == 2 ^ n

RECURSIVE BitXor(_, _)
BitXor(a, b) ==
    IF a = 0 THEN b
    ELSE IF b = 0 THEN a
    ELSE (((a % 2) + (b % 2)) % 2) + (2 * BitXor(a \div 2, b \div 2))

Shr(a, n) == a \div Pow2(n)
LowBits(a, n) == a % Pow2(n)

EmptyMap == [n \in {} |-> 0]

Min(S) == CHOOSE x \in S : \A y \in S : x <= y
Max(S) == CHOOSE x \in S : \A y \in S : x >= y

\* A tuple given as a function, evaluated once (TLC keeps [i \in S |-> e]
\* unevaluated until it is applied).
Tuple(f, n) == SubSeq(f, 1, n)

\* e, with v evaluated first: TLC puts the evaluation of a definition off
\* until its value is used, and a long chain of such values is evaluated
\* too deep.
Then(v, e) == IF v = v THEN e ELSE e

\* The w-bit word of the integer n, and back.
IntToWord(n, w) ==
    Tuple([i \in 1..w |-> IF w - i > 30 THEN 0 ELSE Shr(n, w - i) % 2], w)

RECURSIVE WordToInt(_)
WordToInt(word) ==
    IF word = <<>> THEN 0
    ELSE (2 * WordToInt(SubSeq(word, 1, Len(word) - 1))) + word[Len(word)]

\* a ^ b, a << n (kept to the word's width) and the reversal of a word.
WordXor(a, b) == Tuple([i \in 1..Len(a) |-> (a[i] + b[i]) % 2], Len(a))
WordShl(a, n) ==
    Tuple([i \in 1..Len(a) |-> IF i + n <= Len(a) THEN a[i + n] ELSE 0], Len(a))
WordReverse(a) == Tuple([i \in 1..Len(a) |-> a[Len(a) + 1 - i]], Len(a))

\* The 32-bit word hi:lo of two 16-bit halves.
Word32(hi, lo) == IntToWord(hi, 16) \o IntToWord(lo, 16)

----------------------------------------------------------------------------
(* crc.py                                                                   *)

CRCParam(name, order, poly, init, xorot, refin, refot) ==
    [name |-> name, order |-> order, poly |-> poly, init |-> init,
     xorot |-> xorot, refin |-> refin, refot |-> refot]

\* poly = 0x1021, init = 0xffff, xorot = 0x0000
crc16_ccitt_param ==
    CRCParam("CRC-16-CCITT", 16, IntToWord(4129, 16), IntToWord(65535, 16),
             IntToWord(0, 16), FALSE, FALSE)

\* poly = 0x04c11db7, init = xorot = 0xffffffff
crc32_param ==
    CRCParam("CRC-32", 32, Word32(1217, 7607), Word32(65535, 65535),
             Word32(65535, 65535), TRUE, TRUE)

crc32_bzip2_param ==
    CRCParam("CRC-32/BZIP2", 32, Word32(1217, 7607), Word32(65535, 65535),
             Word32(65535, 65535), FALSE, FALSE)

\* poly = 0x1edc6f41
crc32c_param ==
    CRCParam("CRC-32C", 32, Word32(7900, 28481), Word32(65535, 65535),
             Word32(65535, 65535), TRUE, TRUE)

\* CRC.reflect on a data unit: the low bit_count bits of data in reverse order.
RECURSIVE reflect(_, _)
reflect(data, bit_count) ==
    IF bit_count = 0 THEN 0
    ELSE ((data % 2) * Pow2(bit_count - 1)) + reflect(data \div 2, bit_count - 1)

\* reg ^= b << (order - 1), then one turn of the shift register: the bit-serial
\* step of comp_int (lines 144-150) and of make_table_entry (lines 163-169).
BitStep(param, reg, b) ==
    LET r == [reg EXCEPT ![1] = (reg[1] + b) % 2]
    IN  IF r[1] = 1 THEN WordXor(WordShl(r, 1), param.poly) ELSE WordShl(r, 1)

\* CRC.make_table_entry: the register after the bit_count bits of d, from v.
RECURSIVE TableEntryLoop(_, _, _, _)
TableEntryLoop(param, v, d, bit_count) ==
    IF bit_count = 0 THEN v
    ELSE TableEntryLoop(param, BitStep(param, v, Shr(d, bit_count - 1) % 2),
                        d, bit_count - 1)

make_table_entry(param, d, bit_count) ==
    TableEntryLoop(param, IntToWord(0, param.order), d, bit_count)

\* CRC.find_table: the largest table width i, bit_count >= i > 1, or 0.
find_table(tables, bit_count) ==
    LET fit == {i \in DOMAIN tables : i <= bit_count /\ i > 1}
    IN  IF fit = {} THEN 0 ELSE Max(fit)

\* Mutant of TableIndex: the data slice is left out of the index.
TableIndexNoData(param, reg, b, table_size) ==
    WordToInt(SubSeq(reg, 1, table_size))

\* The table index of line 140: (reg >> (order - table_size)) ^ b.
TableIndex(param, reg, b, table_size) ==
    BitXor(WordToInt(SubSeq(reg, 1, table_size)), b)

\* The cache entry comp_int reads for bit_count, filled by find_table when
\* absent (lines 134-136).
CacheWith(c, bit_count) ==
    IF bit_count \in DOMAIN c.cache
       THEN c.cache
       ELSE [n \in DOMAIN c.cache \cup {bit_count} |->
               IF n = bit_count THEN find_table(c.tables, bit_count)
               ELSE c.cache[n]]

\* The while loop of CRC.comp_int over a CRC object c = [reg, tables, cache]
\* (data already reflected when refin).
RECURSIVE CompLoop(_, _, _, _)
CompLoop(param, c, data, bit_count) ==
    IF bit_count <= 0 THEN c
    ELSE
      LET cache1 == CacheWith(c, bit_count)
          table_size == cache1[bit_count]
      IN  IF table_size # 0
             THEN LET b   == LowBits(Shr(data, bit_count - table_size), table_size)
                      reg == WordXor(
                               c.tables[table_size][TableIndex(param, c.reg, b, table_size)],
                               WordShl(c.reg, table_size))
                  IN  CompLoop(param, [c EXCEPT !.reg = reg, !.cache = cache1],
                               data, bit_count - table_size)
             ELSE LET b   == Shr(data, bit_count - 1) % 2
                      reg == BitStep(param, c.reg, b)
                  IN  CompLoop(param, [c EXCEPT !.reg = reg, !.cache = cache1],
                               data, bit_count - 1)

\* Mutant of comp_int: refin is ignored.
comp_int_no_refin(param, c, data, bit_count) ==
    CompLoop(param, c, data, bit_count)

\* CRC.comp_int
comp_int(param, c, data, bit_count) ==
    CompLoop(param, c,
             IF param.refin THEN reflect(data, bit_count) ELSE data,
             bit_count)

\* CRC.comp on a sequence: each element is given to comp_int as 8 bits, in
\* order (the sequence is halved to keep the evaluation shallow).
RECURSIVE comp(_, _, _)
comp(param, c, data) ==
    IF data = <<>> THEN c
    ELSE IF Len(data) = 1 THEN comp_int(param, c, data[1], 8)
    ELSE LET h     == Len(data) \div 2
             first == comp(param, c, SubSeq(data, 1, h))
         IN  Then(first.reg, comp(param, first, SubSeq(data, h + 1, Len(data))))

\* CRC.get
get(param, reg) ==
    IF param.refot THEN WordReverse(WordXor(reg, param.xorot))
    ELSE WordXor(reg, param.xorot)

\* Mutant of make_table: a new table leaves the cache as it is.
make_table_keeps_cache(param, c, bit_count) ==
    IF bit_count \in DOMAIN c.tables THEN c
    ELSE [c EXCEPT
            !.tables = [w \in DOMAIN c.tables \cup {bit_count} |->
                          IF w = bit_count
                             THEN [i \in 0..(Pow2(bit_count) - 1) |->
                                     make_table_entry(param, i, bit_count)]
                             ELSE c.tables[w]]]

\* CRC.make_table: a new table empties the cache; a width already built is
\* left alone.
make_table(param, c, bit_count) ==
    IF bit_count \in DOMAIN c.tables THEN c
    ELSE [c EXCEPT
            !.cache  = EmptyMap,
            !.tables = [w \in DOMAIN c.tables \cup {bit_count} |->
                          IF w = bit_count
                             THEN [i \in 0..(Pow2(bit_count) - 1) |->
                                     make_table_entry(param, i, bit_count)]
                             ELSE c.tables[w]]]

\* CRC.__init__
NewCRC(param) == [reg |-> param.init, tables |-> EmptyMap, cache |-> EmptyMap]


\* Mutant of reset: the register is left as it is.
reset_keeps_reg(param, c) == c

\* CRC.reset
reset(param, c) == [c EXCEPT !.reg = param.init]

\* fluxtoimd.py crc_param: the CRC-16 of the track decoder, with the
\* modulation's crc_init and lsb_first.
DecoderCRCParam(crc_init, lsb_first) ==
    CRCParam("CRC-16-CCITT", 16, IntToWord(4129, 16), IntToWord(crc_init, 16),
             IntToWord(0, 16), lsb_first, FALSE)

----------------------------------------------------------------------------
(* SpecCRC: one CRC object driven by make_table, reset and comp calls in    *)
(* any order.                                                               *)

\* Bound: the longest free-form message given to comp.
MaxCrcLen == 2

\* The bytes free-form messages are made of.
CrcSampleBytes == {0, 165}

\* crc.py test: vector = [ord(c) for c in '123456789']
TestVector == <<49, 50, 51, 52, 53, 54, 55, 56, 57>>

\* The table widths of the self-test (5, 3), of fluxtoimd.py (8) and 4.
TableWidths == {3, 4, 5, 8}

CrcParams ==
    {crc16_ccitt_param, crc32_param, crc32_bzip2_param, crc32c_param,
     DecoderCRCParam(0, FALSE), DecoderCRCParam(65535, TRUE)}

IsPrefix(s, t) == Len(s) <= Len(t) /\ SubSeq(t, 1, Len(s)) = s

CrcObj == [reg |-> crc_reg, tables |-> crc_tables, cache |-> crc_cache]

SetCrcObj(c) ==
    /\ crc_reg' = c.reg
    /\ crc_tables' = c.tables
    /\ crc_cache' = c.cache

CrcIdle ==
    /\ crc_param = EmptyMap
    /\ crc_reg = <<>>
    /\ crc_tables = EmptyMap
    /\ crc_cache = EmptyMap
    /\ crc_fed = <<>>
    /\ crc_sealed = FALSE

CrcInit ==
    /\ crc_param \in CrcParams
    /\ crc_reg = NewCRC(crc_param).reg
    /\ crc_tables = NewCRC(crc_param).tables
    /\ crc_cache = NewCRC(crc_param).cache
    /\ crc_fed = <<>>
    /\ crc_sealed = FALSE

CrcMakeTable ==
    \E w \in TableWidths :
        /\ SetCrcObj(make_table(crc_param, CrcObj, w))
        /\ UNCHANGED <<crc_param, crc_fed, crc_sealed>>

CrcReset ==
    /\ SetCrcObj(reset(crc_param, CrcObj))
    /\ crc_fed' = <<>>
    /\ crc_sealed' = FALSE
    /\ UNCHANGED crc_param

\* crc.comp(b) for one byte, as in the loop of the self-test.
CrcComp ==
    \E b \in CrcSampleBytes \cup {TestVector[i] : i \in 1..Len(TestVector)} :
        /\ ~crc_sealed
        /\ \/ Len(crc_fed) < MaxCrcLen /\ b \in CrcSampleBytes
           \/ IsPrefix(Append(crc_fed, b), TestVector)
        /\ SetCrcObj(comp_int(crc_param, CrcObj, b, 8))
        /\ crc_fed' = Append(crc_fed, b)
        /\ UNCHANGED <<crc_param, crc_sealed>>

\* The acceptance test of dump_track (lines 89-94) on a field that ends with
\* its own 16-bit CRC, high byte first: c = get(); reset();
\* comp(m + [c >> 8, c & 0xff]).
CrcVerify ==
    /\ ~crc_sealed
    /\ crc_param.order = 16
    /\ LET c    == get(crc_param, crc_reg)
           full == crc_fed \o <<WordToInt(SubSeq(c, 1, 8)), WordToInt(SubSeq(c, 9, 16))>>
       IN  /\ SetCrcObj(comp(crc_param, reset(crc_param, CrcObj), full))
           /\ crc_fed' = full
    /\ crc_sealed' = TRUE
    /\ UNCHANGED crc_param

----------------------------------------------------------------------------
(* The Rocksoft model (Williams, "A Painless Guide to CRC Error Detection   *)
(* Algorithms", the reference implementation cm_nxt / cm_crc): the byte,    *)
(* reflected when refin, is XORed into the top of the register, which then  *)
(* turns eight times; the result is the register, reflected when refot,     *)
(* XORed with xorot.                                                        *)

RECURSIVE RocksoftTurn(_, _, _)
RocksoftTurn(param, reg, n) ==
    IF n = 0 THEN reg
    ELSE RocksoftTurn(param,
                      IF reg[1] = 1 THEN WordXor(WordShl(reg, 1), param.poly)
                      ELSE WordShl(reg, 1),
                      n - 1)

RocksoftNext(param, reg, ch) ==
    LET uch == IF param.refin THEN reflect(ch, 8) ELSE ch
        top == IntToWord(uch, 8) \o IntToWord(0, param.order - 8)
    IN  RocksoftTurn(param, WordXor(reg, top), 8)

RECURSIVE RocksoftReg(_, _, _)
RocksoftReg(param, reg, msg) ==
    IF msg = <<>> THEN reg
    ELSE RocksoftReg(param, RocksoftNext(param, reg, Head(msg)), Tail(msg))

RocksoftCRC(param, msg) ==
    LET reg == RocksoftReg(param, param.init, msg)
    IN  WordXor(param.xorot, IF param.refot THEN WordReverse(reg) ELSE reg)

\* The check values of "123456789": 0x29B1, 0xCBF43926, 0xFC891918, 0xE3069283.
CheckValue(param) ==
    CASE param = crc16_ccitt_param -> IntToWord(10673, 16)
      [] param = crc32_param       -> Word32(52212, 14630)
      [] param = crc32_bzip2_param -> Word32(64649, 6424)
      [] param = crc32c_param      -> Word32(58118, 37507)

PredefinedParams ==
    {crc16_ccitt_param, crc32_param, crc32_bzip2_param, crc32c_param}

\* C7: for each predefined parameter set, with exactly the 5-bit and the 3-bit
\* table built, get() after the bytes given one at a time to comp is the CRC
\* of the Rocksoft model for those bytes, and for "123456789" it is the
\* parameter set's check value.
C7_RocksoftCRC ==
    (crc_param \in PredefinedParams /\ DOMAIN crc_tables = {3, 5}) =>
        /\ get(crc_param, crc_reg) = RocksoftCRC(crc_param, crc_fed)
        /\ crc_fed = TestVector => get(crc_param, crc_reg) = CheckValue(crc_param)

C7_Witness ==
    /\ crc_param = crc32c_param
    /\ DOMAIN crc_tables = {3, 5}
    /\ crc_fed = TestVector
    /\ get(crc_param, crc_reg) = Word32(58118, 37507)

\* C8: whatever tables have been built, and whenever they were built, the
\* register after the bytes given to comp is the register the same bytes
\* leave in an object without any table (bit-serial).
C8_TableIndependence ==
    crc_reg = comp(crc_param, NewCRC(crc_param), crc_fed).reg

C8_Witness ==
    /\ DOMAIN crc_tables = {3, 5}
    /\ crc_cache # EmptyMap
    /\ Len(crc_fed) >= 2
    /\ crc_param.order = 32

\* C9: for the CRC-16 of the decoder (poly 0x1021, refin false, xorot 0, init
\* 0xFFFF or 0x0000), a message followed by the two bytes of its own CRC,
\* high byte first, leaves get() = 0.
C9_ResidueZero ==
    (crc_sealed /\ crc_param \in {crc16_ccitt_param, DecoderCRCParam(0, FALSE)}) =>
        get(crc_param, crc_reg) = IntToWord(0, 16)

C9_Witness ==
    /\ crc_sealed
    /\ crc_param = DecoderCRCParam(0, FALSE)
    /\ Len(crc_fed) = 4
    /\ crc_fed[1] = 165
    /\ 8 \in DOMAIN crc_tables

\* The widest table of at least 2 bits that fits n pending bits; 0 (the
\* bit-serial step) when no table fits.
WidestFit(n) ==
    IF \E w \in DOMAIN crc_tables : 2 <= w /\ w <= n
       THEN CHOOSE w \in DOMAIN crc_tables :
               /\ 2 <= w /\ w <= n
               /\ \A v \in DOMAIN crc_tables : (2 <= v /\ v <= n) => v <= w
       ELSE 0

\* C28: after any sequence of make_table and comp calls every cache entry
\* cache[n] is the widest table width w in tables with 2 <= w <= n, or 0
\* when there is none; a comp call made now leaves the tables as they are
\* and goes by them as they stand, a table built after the cache was filled
\* included: it leaves the cache entry of its 8 bits at the widest table
\* that fits; make_table for a width already built changes nothing.
C28_CacheCoherent ==
    /\ \A n \in DOMAIN crc_cache : crc_cache[n] = WidestFit(n)
    /\ \A w \in DOMAIN crc_tables : make_table(crc_param, CrcObj, w) = CrcObj
    /\ \A b \in CrcSampleBytes :
          LET c == comp_int(crc_param, CrcObj, b, 8)
          IN  /\ c.tables = crc_tables
              /\ 8 \in DOMAIN c.cache
              /\ c.cache[8] = WidestFit(8)

\* The tables of 3, 5 and 8 bits are built and a byte has gone through
\* comp since the last of them was: the cache sends 8 pending bits to the
\* 8-bit table.
C28_Witness ==
    /\ DOMAIN crc_tables = {3, 5, 8}
    /\ DOMAIN crc_cache = {8}
    /\ crc_cache[8] = 8
    /\ Len(crc_fed) = MaxCrcLen

----------------------------------------------------------------------------
(* adpll.py.  The program computes in floating-point seconds; the model     *)
(* computes in integer picoseconds, the factors in thousandths, and a       *)
(* product with a factor is cut to a whole picosecond.                      *)

\* int(): towards zero.
TruncDiv(a, b) == IF a >= 0 THEN a \div b ELSE -((-a) \div b)

\* fluxtoimd.py line 65: max_adj_pct = 3.0
max_adj_pct == 3

\* ADPLL.__init__ up to line 43 (before the first delta is read).
NewADPLL(osc_period, freq_adj_factor, phase_adj_factor) ==
    [osc_period       |-> osc_period,
     freq_adj_factor  |-> freq_adj_factor,
     phase_adj_factor |-> phase_adj_factor,
     min_osc_period   |-> (osc_period * (100 - max_adj_pct)) \div 100,
     max_osc_period   |-> (osc_period * (100 + max_adj_pct)) \div 100,
     zero_bits        |-> 0,
     trans_time       |-> 0,
     osc_time         |-> 0]

\* Lines 63-64: q = (trans_time - osc_time) / osc_period; hbi = int(q + 0.5).
HalfBitInterval(trans_time, osc_time, osc_period) ==
    TruncDiv((2 * (trans_time - osc_time)) + osc_period, 2 * osc_period)

\* error * factor, the factor in thousandths.
Scaled(error, factor) == TruncDiv(error * factor, 1000)

\* Mutant of AdjustedPeriod: the adjusted period is not clamped.
AdjustedPeriodNoClamp(a, error) ==
    IF a.freq_adj_factor # 0
       THEN a.osc_period + Scaled(error, a.freq_adj_factor)
       ELSE a.osc_period

\* Lines 86-94: the frequency adjustment and its clamp.
AdjustedPeriod(a, error) ==
    IF a.freq_adj_factor # 0
       THEN LET p == a.osc_period + Scaled(error, a.freq_adj_factor)
            IN  IF p < a.min_osc_period THEN a.min_osc_period
                ELSE IF p > a.max_osc_period THEN a.max_osc_period
                ELSE p
       ELSE a.osc_period

\* Lines 96-98: the phase adjustment.
AdjustedOscTime(a, osc_time, error) ==
    IF a.phase_adj_factor # 0
       THEN osc_time + Scaled(error, a.phase_adj_factor)
       ELSE osc_time

\* Mutant of ZeroBitsAfter: one zero too many after each one.
ZeroBitsAfterPlusOne(hbi) == hbi

\* Mutant of ZeroBitsAfter: no zero after a one.
ZeroBitsAfterNone(hbi) == 0

\* Line 100: zero_bits = hbi - 1.
ZeroBitsAfter(hbi) == hbi - 1

----------------------------------------------------------------------------
(* SpecADPLL: an ADPLL constructed over a flux-delta iterator and iterated  *)
(* until the iterator ends.  The iterator's deltas are chosen as they are   *)
(* read.                                                                    *)

\* Bound: the number of deltas the flux iterator yields at most.
MaxDeltas == 4

\* Half-bit periods (ps): 1/(2 * 250 kbps) and 1/(2 * 500 kbps).
OscPeriods == {2000000, 1000000}

\* Flux deltas (ps): 4 us, 2 us, a late 4.3 us, an early 3.2 us, and 0.4 us
\* (too soon).
FluxDeltas == {4000000, 2000000, 4300000, 3200000, 400000}

\* Factors in thousandths: 0.005 and 0.1 as in fluxtoimd.py, 0, and a
\* frequency factor of 0.5 under which the period meets its bounds.
FreqFactors == {0, 5, 500}
PhaseFactors == {0, 100}

AdpllIdle ==
    /\ adpll = NewADPLL(0, 0, 0)
    /\ adpll_pc = "off"
    /\ adpll_in = <<>>
    /\ adpll_out = <<>>

AdpllInit ==
    /\ \E p \in OscPeriods, f \in FreqFactors, ph \in PhaseFactors :
           adpll = NewADPLL(p, f, ph)
    /\ adpll_pc = "new"
    /\ adpll_in = <<>>
    /\ adpll_out = <<>>

\* __init__ lines 45-47: the oscillator is locked to the first transition.
AdpllConstruct ==
    /\ adpll_pc = "new"
    /\ \E d \in FluxDeltas :
        /\ adpll' = [adpll EXCEPT !.trans_time = d, !.osc_time = d]
        /\ adpll_in' = Append(adpll_in, d)
    /\ adpll_pc' = "idle"
    /\ UNCHANGED adpll_out

\* __init__ line 46 on an empty iterator: StopIteration leaves __init__.
AdpllConstructEmpty ==
    /\ adpll_pc = "new"
    /\ adpll_pc' = "init_failed"
    /\ UNCHANGED <<adpll, adpll_in, adpll_out>>

\* __next__ lines 54-56.
AdpllNextZero ==
    /\ adpll_pc = "idle"
    /\ adpll.zero_bits # 0
    /\ adpll' = [adpll EXCEPT !.zero_bits = @ - 1]
    /\ adpll_out' = Append(adpll_out, 0)
    /\ UNCHANGED <<adpll_pc, adpll_in>>

\* __next__ lines 61-103: one turn of the while loop on the next delta; when
\* hbi > 0 the loop ends, the period and phase are adjusted and 1 is returned.
AdpllTransition ==
    /\ \/ adpll_pc = "idle" /\ adpll.zero_bits = 0
       \/ adpll_pc = "loop"
    /\ Len(adpll_in) < MaxDeltas
    /\ \E d \in FluxDeltas :
        LET trans_time == adpll.trans_time + d
            hbi        == HalfBitInterval(trans_time, adpll.osc_time, adpll.osc_period)
            osc_time   == adpll.osc_time + (hbi * adpll.osc_period)
            error      == trans_time - osc_time
        IN  /\ adpll_in' = Append(adpll_in, d)
            /\ IF hbi <= 0
                  THEN /\ adpll' = [adpll EXCEPT !.trans_time = trans_time,
                                                 !.osc_time = osc_time]
                       /\ adpll_pc' = "loop"
                       /\ UNCHANGED adpll_out
                  ELSE /\ adpll' = [adpll EXCEPT
                                      !.trans_time = trans_time,
                                      !.osc_period = AdjustedPeriod(adpll, error),
                                      !.osc_time = AdjustedOscTime(adpll, osc_time, error),
                                      !.zero_bits = ZeroBitsAfter(hbi)]
                       /\ adpll_pc' = "idle"
                       /\ adpll_out' = Append(adpll_out, 1)

\* Mutant of AdpllExhausted: the end of the stream is signalled whatever the
\* pending-zero counter holds.
AdpllExhaustedEarly ==
    /\ adpll_pc \in {"idle", "loop"}
    /\ adpll_pc' = "stopped"
    /\ UNCHANGED <<adpll, adpll_in, adpll_out>>

\* __next__ line 62 on an exhausted iterator: StopIteration leaves __next__
\* and ends the iteration.
AdpllExhausted ==
    /\ \/ adpll_pc = "idle" /\ adpll.zero_bits = 0
       \/ adpll_pc = "loop"
    /\ adpll_pc' = "stopped"
    /\ UNCHANGED <<adpll, adpll_in, adpll_out>>

\* The scenario of C10: P0 = 2.0 us, freq_adj_factor = 0.005,
\* phase_adj_factor = 0.1, and every delta read so far is 4 us.
PeriodicScenario ==
    /\ adpll_pc \in {"idle", "loop", "stopped"}
    /\ adpll.min_osc_period = 1940000 /\ adpll.max_osc_period = 2060000
    /\ adpll.freq_adj_factor = 5
    /\ adpll.phase_adj_factor = 100
    /\ \A i \in 1..Len(adpll_in) : adpll_in[i] = 4000000

\* C10 as claimed: on the periodic 4 us stream the output is the repetition of
\* 1,0,0,0 and the oscillator period stays 2.0 us.
C10_Original ==
    PeriodicScenario =>
        /\ \A i \in 1..Len(adpll_out) :
               adpll_out[i] = (IF i % 4 = 1 THEN 1 ELSE 0)
        /\ adpll.osc_period = 2000000

\* C10 as amended: on the periodic 4 us stream the output is the repetition of
\* 1,0 (a one followed by one zero per flux interval: 4 us is two half-bit
\* periods of 2 us) and the oscillator period stays 2.0 us after every step.
C10_Amended ==
    PeriodicScenario =>
        /\ \A i \in 1..Len(adpll_out) :
               adpll_out[i] = (IF i % 2 = 1 THEN 1 ELSE 0)
        /\ adpll.osc_period = 2000000

C10_Witness ==
    /\ PeriodicScenario
    /\ adpll_pc = "stopped"
    /\ adpll_out = <<1, 0, 1, 0, 1, 0>>

\* A step that is a call of __next__ (or a turn of its loop) on an ADPLL
\* whose construction succeeded.
NextCall == adpll_pc \in {"idle", "loop"} /\ adpll_pc' # "stopped"

\* hbi of the delta the step has read.
StepHbi ==
    HalfBitInterval(adpll'.trans_time, adpll.osc_time, adpll.osc_period)

\* C19: a call with the pending-zero counter positive returns 0, decrements
\* the counter and reads no delta; a call with the counter at 0 reads deltas
\* until hbi >= 1, a delta with hbi <= 0 emitting no bit and raising no
\* error, then returns 1 and sets the counter to hbi - 1; the counter is
\* never negative.
C19_PendingZeros ==
    [][ /\ adpll'.zero_bits >= 0
        /\ (NextCall /\ adpll_pc = "idle" /\ adpll.zero_bits > 0) =>
              /\ adpll_out' = Append(adpll_out, 0)
              /\ adpll'.zero_bits = adpll.zero_bits - 1
              /\ adpll_in' = adpll_in
              /\ adpll_pc' = "idle"
        /\ (NextCall /\ (adpll_pc = "loop" \/ adpll.zero_bits = 0)) =>
              /\ Len(adpll_in') = Len(adpll_in) + 1
              /\ adpll'.trans_time = adpll.trans_time + adpll_in'[Len(adpll_in')]
              /\ IF StepHbi <= 0
                    THEN /\ adpll_out' = adpll_out
                         /\ adpll_pc' = "loop"
                         /\ adpll'.zero_bits = 0
                    ELSE /\ adpll_out' = Append(adpll_out, 1)
                         /\ adpll_pc' = "idle"
                         /\ adpll'.zero_bits = StepHbi - 1
      ]_vars

\* A delta with hbi <= 0 has been read without a bit, then a 1 with two
\* pending zeros was returned and both zeros have come out.
C19_Witness ==
    /\ adpll_pc = "idle"
    /\ adpll.zero_bits = 0
    /\ Len(adpll_out) >= 3
    /\ SubSeq(adpll_out, Len(adpll_out) - 2, Len(adpll_out)) = <<1, 0, 0>>
    /\ Len(adpll_in) > 1 + Cardinality({i \in 1..Len(adpll_out) : adpll_out[i] = 1})

\* The ADPLL holds the bounds NewADPLL gave it for the initial period p.
BoundsOf(p) ==
    /\ adpll.min_osc_period = (p * (100 - max_adj_pct)) \div 100
    /\ adpll.max_osc_period = (p * (100 + max_adj_pct)) \div 100

\* C20: at every moment from construction on, min_osc_period <= osc_period
\* <= max_osc_period, the bounds being the initial period scaled by
\* (100 - max_adj_pct)/100 and (100 + max_adj_pct)/100; the bounds never
\* change; with freq_adj_factor 0 the period stays the initial period.
C20_PeriodBounds ==
    /\ [](\E p \in OscPeriods :
             /\ BoundsOf(p)
             /\ adpll.min_osc_period <= adpll.osc_period
             /\ adpll.osc_period <= adpll.max_osc_period
             /\ adpll.freq_adj_factor = 0 => adpll.osc_period = p)
    /\ [][ /\ adpll'.min_osc_period = adpll.min_osc_period
           /\ adpll'.max_osc_period = adpll.max_osc_period ]_vars

\* The period has met both bounds: it stands at one of them after having
\* been adjusted.
C20_Witness ==
    /\ adpll_pc = "idle"
    /\ adpll.freq_adj_factor # 0
    /\ adpll_out # <<>>
    /\ adpll.osc_period \in {adpll.min_osc_period, adpll.max_osc_period}

\* The ADPLL has been constructed: the iteration of dump_track's loop
\* (fluxtoimd.py line 72) is under way or over.
Iterating == adpll_pc \in {"idle", "loop", "stopped"}

\* The zeros at the end of a bit tuple.
TrailingZeros(q) ==
    Len(q) - Max({0} \cup {i \in 1..Len(q) : q[i] = 1})

\* C21: iterating the ADPLL over a finite flux-delta iterator ends: the
\* iteration, once begun, reaches the end of the stream; __next__ signals the
\* end only on the call that finds the flux iterator exhausted, a call made
\* with no zero pending, which emits no bit and reads no delta; at the end no
\* zero is pending, and once ended the iteration stays ended.
C21_Terminates ==
    /\ Iterating ~> (adpll_pc = "stopped")
    /\ [](adpll_pc = "stopped" => adpll.zero_bits = 0)
    /\ [][ /\ (adpll_pc' = "stopped" /\ adpll_pc # "stopped") =>
                /\ adpll_pc \in {"idle", "loop"}
                /\ adpll.zero_bits = 0
                /\ UNCHANGED <<adpll, adpll_in, adpll_out>>
           /\ adpll_pc = "stopped" => adpll_pc' = "stopped"
           /\ (adpll_pc = "idle" /\ adpll.zero_bits # 0) => adpll_pc' = "idle"
         ]_vars

\* The iteration has ended after a one whose three pending zeros all came
\* out.
C21_Witness ==
    /\ adpll_pc = "stopped"
    /\ Len(adpll_in) >= 3
    /\ TrailingZeros(adpll_out) = 3
    /\ Len(adpll_out) > 4

----------------------------------------------------------------------------
(* modulation.py.  A channel-bit string is a tuple of 0/1; a position is an *)
(* offset from 0 as in Python.                                              *)

Bit(n, i) == Shr(n, i) % 2

\* FM.encode_mark and IntelM2FM.encode_mark: clock and data bits interleaved,
\* most significant first.
encode_mark_msb(data, clock) ==
    Tuple([k \in 1..16 |->
             IF k % 2 = 1 THEN Bit(clock, 7 - ((k - 1) \div 2))
             ELSE Bit(data, 7 - ((k - 1) \div 2))], 16)

\* HPM2FM.encode_mark: the same, least significant first.
encode_mark_lsb(data, clock) ==
    Tuple([k \in 1..16 |->
             IF k % 2 = 1 THEN Bit(clock, (k - 1) \div 2)
             ELSE Bit(data, (k - 1) \div 2)], 16)

\* MFM.encode_mark: two bytes; a clock bit is 1 between two 0 data bits,
\* except the one after data bit missing_clock1 of the first byte.
encode_mark_mfm(data1, missing_clock1, data2) ==
    LET d(j)  == IF j <= 8 THEN Bit(data1, 8 - j) ELSE Bit(data2, 16 - j)
        pd(j) == IF j = 1 THEN 0 ELSE d(j - 1)
        c(j)  == IF pd(j) = 0 /\ d(j) = 0
                    /\ ~(j <= 8 /\ (8 - j) = (6 - missing_clock1))
                 THEN 1 ELSE 0
    IN  Tuple([k \in 1..32 |->
                 IF k % 2 = 1 THEN c((k + 1) \div 2) ELSE d(k \div 2)], 32)

Modulations == {"FM", "MFM", "IntelM2FM", "HPM2FM"}

default_bit_rate_kbps(m) ==
    CASE m = "FM" -> 250 [] m = "MFM" -> 500
      [] m = "IntelM2FM" -> 500 [] m = "HPM2FM" -> 500

default_sectors_per_track(m) ==
    CASE m = "FM" -> 26 [] m = "MFM" -> 26
      [] m = "IntelM2FM" -> 52 [] m = "HPM2FM" -> 30

default_bytes_per_sector(m) ==
    CASE m = "FM" -> 128 [] m = "MFM" -> 256
      [] m = "IntelM2FM" -> 128 [] m = "HPM2FM" -> 256

lsb_first(m) == m = "HPM2FM"

imagedisk_mode(m) == IF m = "FM" THEN 0 ELSE 3

\* 0xffff, or 0x0000 for Intel M2FM
crc_init(m) == IF m = "IntelM2FM" THEN 0 ELSE 65535

crc_includes_address_mark(m) == m # "HPM2FM"

\* hasattr(modulation, ...): MFM defines no id_to_data_half_bits, HP M2FM no
\* index and no deleted-data address mark.
HasIdToDataHalfBits(m) == m # "MFM"
HasIndexAddressMark(m) == m # "HPM2FM"
HasDeletedDataAddressMark(m) == m # "HPM2FM"

id_to_data_half_bits(m) == IF m = "FM" THEN 400 ELSE 600

index_address_mark(m) ==
    CASE m = "FM"        -> encode_mark_msb(252, 215)
      [] m = "MFM"       -> encode_mark_mfm(194, 5, 252)
      [] m = "IntelM2FM" -> encode_mark_msb(12, 113)

id_address_mark(m) ==
    CASE m = "FM"        -> encode_mark_msb(254, 199)
      [] m = "MFM"       -> encode_mark_mfm(161, 4, 254)
      [] m = "IntelM2FM" -> encode_mark_msb(14, 112)
      [] m = "HPM2FM"    -> encode_mark_lsb(112, 224)

data_address_mark(m) ==
    CASE m = "FM"        -> encode_mark_msb(251, 199)
      [] m = "MFM"       -> encode_mark_mfm(161, 4, 251)
      [] m = "IntelM2FM" -> encode_mark_msb(11, 112)
      [] m = "HPM2FM"    -> encode_mark_lsb(80, 14)

deleted_data_address_mark(m) ==
    CASE m = "FM"        -> encode_mark_msb(248, 199)
      [] m = "MFM"       -> encode_mark_mfm(161, 4, 248)
      [] m = "IntelM2FM" -> encode_mark_msb(8, 114)

\* The descriptor fields fluxtoimd.py reads that modulation.py does not
\* define, from the specification's descriptor table (section 4.3, "ID len")
\* and data model (section 3, "set of acceptable sector sizes").
id_field_length(m) == IF m = "HPM2FM" THEN 2 ELSE 4

expected_sector_sizes(m) == {default_bytes_per_sector(m)}

\* Modulation.decode: the data bit of each (clock, data) pair, eight to a
\* byte, first bit most significant; bits left over are dropped.  On a
\* string of odd length channel_bits[i+1] raises IndexError.
DecodeRaises(channel_bits) == Len(channel_bits) % 2 = 1

decode(channel_bits) ==
    LET n == Len(channel_bits) \div 16
    IN  Tuple([j \in 1..n |->
                 WordToInt([k \in 1..8 |-> channel_bits[(16 * (j - 1)) + (2 * k)]])],
              n)

\* The address marks of a modulation, each with the data byte(s) given to
\* encode_mark (modulation.py lines 65-68, 111-114, 153-156, 191-194).
Mark(bits, data) == [bits |-> bits, data |-> data]

AddressMarks(m) ==
    CASE m = "FM" ->
           {Mark(index_address_mark(m), <<252>>), Mark(id_address_mark(m), <<254>>),
            Mark(data_address_mark(m), <<251>>),
            Mark(deleted_data_address_mark(m), <<248>>)}
      [] m = "MFM" ->
           {Mark(index_address_mark(m), <<194, 252>>),
            Mark(id_address_mark(m), <<161, 254>>),
            Mark(data_address_mark(m), <<161, 251>>),
            Mark(deleted_data_address_mark(m), <<161, 248>>)}
      [] m = "IntelM2FM" ->
           {Mark(index_address_mark(m), <<12>>), Mark(id_address_mark(m), <<14>>),
            Mark(data_address_mark(m), <<11>>),
            Mark(deleted_data_address_mark(m), <<8>>)}
      [] m = "HPM2FM" ->
           {Mark(id_address_mark(m), <<112>>),
            Mark(encode_mark_lsb(240, 14), <<240>>),
            Mark(data_address_mark(m), <<80>>),
            Mark(encode_mark_lsb(208, 14), <<208>>)}

\* Python's s[a:b], s.find(sub, start) and
\* [m.start() for m in re.finditer(sub, s)] (matches do not overlap).
Slice(s, a, b) == SubSeq(s, a + 1, IF b < Len(s) THEN b ELSE Len(s))

MatchAt(s, sub, i) == \A k \in 1..Len(sub) : s[i + k] = sub[k]

Find(s, sub, start) ==
    LET hits == {i \in start..(Len(s) - Len(sub)) : MatchAt(s, sub, i)}
    IN  IF hits = {} THEN -1 ELSE Min(hits)

\* Mutant of FindIter: every occurrence, overlapping ones included.
FindIterAll(s, sub) ==
    LET hits == {i \in 0..(Len(s) - Len(sub)) : MatchAt(s, sub, i)}
        RECURSIVE Sorted(_)
        Sorted(h) == IF h = {} THEN <<>> ELSE <<Min(h)>> \o Sorted(h \ {Min(h)})
    IN  Sorted(hits)

RECURSIVE FindIterFrom(_, _, _)
FindIterFrom(s, sub, start) ==
    LET p == Find(s, sub, start)
    IN  IF p = -1 THEN <<>>
        ELSE <<p>> \o FindIterFrom(s, sub, p + Len(sub))

FindIter(s, sub) == FindIterFrom(s, sub, 0)

----------------------------------------------------------------------------
(* imagedisk.py: ImageDisk.tracks is a map from (cylinder, head) to an      *)
(* insertion-ordered map from sector number to Sector; an ordered map is a  *)
(* tuple of entries in insertion order.                                     *)

HasKey(omap, key) == \E i \in 1..Len(omap) : omap[i].key = key

Lookup(omap, key) == omap[CHOOSE i \in 1..Len(omap) : omap[i].key = key]

\* Mutant of Store: an entry stored under a key the map has goes to the end.
StoreAtEnd(omap, entry) ==
    Append(SelectSeq(omap, LAMBDA e : e.key # entry.key), entry)

\* omap[key] = entry: a present key keeps its place, a new key goes last.
Store(omap, entry) ==
    IF HasKey(omap, entry.key)
       THEN Tuple([i \in 1..Len(omap) |->
                     IF omap[i].key = entry.key THEN entry ELSE omap[i]],
                  Len(omap))
       ELSE Append(omap, entry)

\* ImageDisk.__sector_size_map
sector_size_map == [n \in {128, 256, 512, 1024, 2048, 4096} |->
                      CASE n = 128 -> 0 [] n = 256 -> 1 [] n = 512 -> 2
                        [] n = 1024 -> 3 [] n = 2048 -> 4 [] n = 4096 -> 5]

\* ImageDisk.write_sector: the tracks after the call and the error raised
\* ("" when none).  The track's map is created before either check.
write_sector(tracks, mode, cylinder, head, sector, data, deleted, replace_ok) ==
    LET track_coord == <<cylinder, head>>
        tracks1 == IF track_coord \in DOMAIN tracks THEN tracks
                   ELSE [tc \in DOMAIN tracks \cup {track_coord} |->
                           IF tc = track_coord THEN <<>> ELSE tracks[tc]]
    IN  IF ~replace_ok /\ HasKey(tracks1[track_coord], sector)
           THEN [tracks |-> tracks1, error |-> "NameError: DuplicateSectorException"]
        ELSE IF Len(data) \notin DOMAIN sector_size_map
           THEN [tracks |-> tracks1, error |-> "NameError: InvalidSectorSizeException"]
        ELSE [tracks |-> [tracks1 EXCEPT ![track_coord] =
                            Store(@, [key |-> sector, mode |-> mode,
                                      deleted |-> deleted,
                                      size_code |-> sector_size_map[Len(data)],
                                      data |-> data])],
              error |-> ""]

----------------------------------------------------------------------------
(* imagedisk.py: writing an image file and reading one.  A file is the      *)
(* tuple of its bytes.                                                      *)

\* 'IMD 1.18 %s\r' with the timestamp 01/11/2026 11:33:05 (line 183-184).
ImdHeader ==
    <<73, 77, 68, 32, 49, 46, 49, 56, 32, 48, 49, 47, 49, 49, 47, 50, 48, 50,
      54, 32, 49, 49, 58, 51, 51, 58, 48, 53, 13>>

\* b'IMD '
ImdMagic == <<73, 77, 68, 32>>

\* The keys of an ordered map, in order.
Keys(omap) == Tuple([i \in 1..Len(omap) |-> omap[i].key], Len(omap))

\* Lines 135-148: the mode of the track and its size code after the loop;
\* None stands for Python's None and MixedModes for the raise of line 144.
None == -1

MixedModes == -2

RECURSIVE TrackMode(_, _)
TrackMode(omap, mode) ==
    IF omap = <<>> THEN mode
    ELSE IF mode = None THEN TrackMode(Tail(omap), omap[1].mode)
    ELSE IF mode # omap[1].mode THEN MixedModes
    ELSE TrackMode(Tail(omap), mode)

RECURSIVE TrackSizeCode(_, _)
TrackSizeCode(omap, sector_size_code) ==
    IF omap = <<>> THEN sector_size_code
    ELSE TrackSizeCode(Tail(omap),
                       IF sector_size_code = None THEN omap[1].size_code
                       ELSE IF sector_size_code # omap[1].size_code THEN 255
                       ELSE sector_size_code)

\* data[1:] == data[:-1]
Compressible(data) == \A i \in 1..(Len(data) - 1) : data[i] = data[i + 1]

\* Lines 161-173 for one sector.
SectorRecord(sector) ==
    LET data_code == IF sector.deleted THEN 3 ELSE 1
    IN  IF Compressible(sector.data)
           THEN <<data_code + 1>> \o SubSeq(sector.data, 1, 1)
           ELSE <<data_code>> \o sector.data

RECURSIVE SectorRecords(_)
SectorRecords(omap) ==
    IF omap = <<>> THEN <<>>
    ELSE SectorRecord(omap[1]) \o SectorRecords(Tail(omap))

\* ImageDisk.__write_track: the bytes written and the exception raised ("" when
\* none).  Line 160 iterates over the track's keys, which are integers.
write_track(tracks, tc) ==
    LET track == tracks[tc]
        mode  == TrackMode(track, None)
        sector_size_code == TrackSizeCode(track, None)
        header == <<mode, tc[1], tc[2], Len(track), sector_size_code>> \o Keys(track)
    IN  IF mode = MixedModes
           THEN [bytes |-> <<>>, error |-> "NameError: MixedModeTrackException"]
        ELSE IF mode = None
           THEN [bytes |-> <<>>, error |-> "TypeError"]
        ELSE IF sector_size_code = 255
           THEN [bytes |-> header, error |-> "AttributeError"]
        ELSE [bytes |-> header \o SectorRecords(track), error |-> ""]

\* sorted(self.tracks.keys())
RECURSIVE SortedCoords(_)
SortedCoords(coords) ==
    IF coords = {} THEN <<>>
    ELSE LET tc == CHOOSE c \in coords :
                      \A d \in coords : c[1] < d[1] \/ (c[1] = d[1] /\ c[2] <= d[2])
         IN  <<tc>> \o SortedCoords(coords \ {tc})

\* Lines 189-191: the tracks are written in order until one raises.
RECURSIVE WriteTracks(_, _, _)
WriteTracks(tracks, tl, bytes) ==
    IF tl = <<>> THEN [bytes |-> bytes, error |-> ""]
    ELSE LET w == write_track(tracks, tl[1])
         IN  IF w.error # "" THEN [bytes |-> bytes \o w.bytes, error |-> w.error]
             ELSE WriteTracks(tracks, Tail(tl), bytes \o w.bytes)

\* ImageDisk.write of an image without comment.
write(tracks) ==
    WriteTracks(tracks, SortedCoords(DOMAIN tracks), ImdHeader \o <<26>>)

\* f.read(count) at position pos (the bytes before pos are read): the bytes
\* got, fewer than count at the end of the file.
FileRead(file, pos, count) ==
    SubSeq(file, pos, IF pos + count - 1 > Len(file) THEN Len(file) ELSE pos + count - 1)

\* Lines 87-97: the sector records of a track, from position pos on; st is
\* [tracks, pos, error].
RECURSIVE ReadSectors(_, _, _, _, _, _, _, _)
ReadSectors(file, st, mode, cylinder, head, sector_numbers, sector_size_codes, i) ==
    IF i > Len(sector_numbers) \/ st.error # "" THEN st
    ELSE LET type == FileRead(file, st.pos, 1)
         IN  IF type = <<>> THEN [st EXCEPT !.error = "IndexError"]
             ELSE IF type[1] > 8 THEN [st EXCEPT !.error = "AssertionError"]
             ELSE LET compressed == type[1] \in {2, 4, 6, 8}
                      size == 128 * Pow2(sector_size_codes[i])
                      got  == FileRead(file, st.pos + 1, IF compressed THEN 1 ELSE size)
                      data == IF compressed /\ got # <<>>
                                 THEN Tuple([n \in 1..size |-> got[1]], size)
                                 ELSE got
                      w    == write_sector(st.tracks, mode, cylinder, head,
                                           sector_numbers[i], data, FALSE, FALSE)
                  IN  ReadSectors(file,
                                  [tracks |-> w.tracks,
                                   pos |-> st.pos + 1 + Len(got),
                                   error |-> w.error],
                                  mode, cylinder, head, sector_numbers,
                                  sector_size_codes, i + 1)

\* ImageDisk.__read_track at position pos: [tracks, pos, error], the error
\* "EOFError" when the file ends in the header.  Line 97 calls write_sector
\* without its deleted argument.
read_track(file, tracks, pos) ==
    LET header == FileRead(file, pos, 5)
    IN  IF Len(header) # 5
           THEN [tracks |-> tracks, pos |-> pos, error |-> "EOFError"]
           ELSE LET sector_count   == header[4]
                    sector_numbers == FileRead(file, pos + 5, sector_count)
                    mapped == header[5] = 255
                    codes  == IF mapped
                                 THEN FileRead(file, pos + 5 + Len(sector_numbers),
                                               sector_count)
                                 ELSE Tuple([n \in 1..sector_count |-> header[5]],
                                            sector_count)
                    start  == pos + 5 + Len(sector_numbers)
                              + (IF mapped THEN Len(codes) ELSE 0)
                IN  IF Len(sector_numbers) < sector_count \/ Len(codes) < sector_count
                       THEN [tracks |-> tracks, pos |-> start, error |-> "IndexError"]
                       ELSE ReadSectors(file,
                                        [tracks |-> tracks, pos |-> start, error |-> ""],
                                        header[1], header[2], header[3],
                                        sector_numbers, codes, 1)

\* Lines 114-118: tracks are read until the file ends in a track header.
RECURSIVE ReadTracks(_, _, _)
ReadTracks(file, tracks, pos) ==
    LET r == read_track(file, tracks, pos)
    IN  IF r.error = "EOFError" THEN [tracks |-> r.tracks, error |-> ""]
        ELSE IF r.error # "" THEN [tracks |-> r.tracks, error |-> r.error]
        ELSE ReadTracks(file, r.tracks, r.pos)

\* ImageDisk.__init__ with a file, lines 102-118.  A file without the byte
\* 0x1a keeps the loop of lines 112-113 reading for ever ("hang").
ImageDisk(file) ==
    IF FileRead(file, 1, 4) # ImdMagic
       THEN [tracks |-> EmptyMap, error |-> "NameError"]
    ELSE IF \A i \in 5..Len(file) : file[i] # 26
       THEN [tracks |-> EmptyMap, error |-> "hang"]
    ELSE ReadTracks(file, EmptyMap,
                    1 + Min({i \in 5..Len(file) : file[i] = 26}))

----------------------------------------------------------------------------
(* fluxtoimd.py dump_track, lines 86-156: one turn of the loop over the ID  *)
(* address marks.  A sectors entry is [key, deleted, has_data, data]; an    *)
(* entry without data is the code's [False, None].                          *)

\* 128 << id_size; past 2^16 the value is beyond any track and any expected
\* size, and is held there.
SectorBytes(id_size) == 128 * Pow2(IF id_size < 9 THEN id_size ELSE 9)

\* The [lo, hi] test of lines 129 and 134.
InWindow(m, data_pos, id_pos) ==
    /\ (id_to_data_half_bits(m) - 50) <= (data_pos - id_pos)
    /\ (data_pos - id_pos) <= (id_to_data_half_bits(m) + 50)

\* Mutant of FieldCRC: the register is zero whatever the field holds.
FieldCRCAlwaysZero(m, param, c, field) ==
    [reset(param, c) EXCEPT !.reg = IntToWord(0, param.order)]

\* The CRC object after reset() and comp() of a decoded field (lines 89-93
\* and 147-151).
FieldCRC(m, param, c, field) ==
    comp(param, reset(param, c),
         IF crc_includes_address_mark(m) THEN field ELSE Tail(field))

\* Lines 98-108: the ID values, and whether the unpacking raises ValueError.
IdUnpackRaises(m, id_field) == Len(id_field) < id_field_length(m) + 1

IdValues(m, id_field) ==
    IF id_field_length(m) = 2
       THEN [track  |-> id_field[2],
             head   |-> IF id_field[3] < 128 THEN 0 ELSE 1,
             sector |-> IF id_field[3] < 128 THEN id_field[3] ELSE id_field[3] - 128,
             size   |-> 1]
       ELSE [track |-> id_field[2], head |-> id_field[3],
             sector |-> id_field[4], size |-> id_field[5]]

\* Mutant of KeepsEarlier: an earlier decode is never kept.
KeepsEarlierNever(sectors, id_sector) == FALSE

\* Line 123: (id_sector in sectors) and (sectors[id_sector][1] is not None).
KeepsEarlier(sectors, id_sector) ==
    HasKey(sectors, id_sector) /\ Lookup(sectors, id_sector).has_data

\* Lines 127-144: the data address mark search.  [found, raises, data_pos,
\* deleted].
DataMarkSearch(m, bits, id_pos) ==
    LET from     == id_pos + Len(id_address_mark(m)) + (16 * (id_field_length(m) + 2))
        data_pos == Find(bits, data_address_mark(m), from)
    IN  IF ~HasIdToDataHalfBits(m)
           THEN [found |-> FALSE, raises |-> TRUE, data_pos |-> data_pos, deleted |-> FALSE]
        ELSE IF InWindow(m, data_pos, id_pos)
           THEN [found |-> TRUE, raises |-> FALSE, data_pos |-> data_pos, deleted |-> FALSE]
        ELSE IF HasDeletedDataAddressMark(m)
           THEN LET del_pos == Find(bits, deleted_data_address_mark(m),
                                    id_pos + Len(id_address_mark(m)) + 96)
                IN  [found |-> InWindow(m, del_pos, id_pos), raises |-> FALSE,
                     data_pos |-> del_pos, deleted |-> InWindow(m, del_pos, id_pos)]
        ELSE [found |-> FALSE, raises |-> FALSE, data_pos |-> data_pos, deleted |-> FALSE]

\* The ID values of a turn that got none.
NoId == [track |-> -1, head |-> -1, sector |-> -1, size |-> -1]

\* What one turn of the loop did: the outcome, the exception raised ("" when
\* none), the sectors map and the CRC object afterwards.  The outcomes:
\*   "bad_id_crc" (line 97), "wrong_head" (113), "wrong_track" (117),
\*   "already" (124), "no_data" (140, 144), "bad_data_crc" (154),
\*   "stored" (156), "raised".
Turn(outcome, raises, sectors, c, id_pos, id, unexpected, data_pos, deleted) ==
    [outcome |-> outcome, raises |-> raises, sectors |-> sectors, crc |-> c,
     id_pos |-> id_pos, id |-> id, unexpected_size |-> unexpected,
     data_pos |-> data_pos, deleted |-> deleted]

\* Lines 146-156, after a data address mark was accepted at data_pos.
DataTurn(m, param, bits, id_pos, id, unexpected, sectors, c, data_pos, deleted) ==
    LET bc         == SectorBytes(id.size)
        data_slice == Slice(bits, data_pos,
                            data_pos + Len(id_address_mark(m)) + ((bc + 2) * 16))
    IN  IF DecodeRaises(data_slice)
           THEN Turn("raised", "IndexError", sectors, c, id_pos, id, unexpected,
                     data_pos, deleted)
        ELSE
          LET data_field == decode(data_slice)
              c2         == FieldCRC(m, param, c, data_field)
          IN  IF get(param, c2.reg) # IntToWord(0, param.order)
                 THEN Turn("bad_data_crc", "", sectors, c2, id_pos, id, unexpected,
                           data_pos, deleted)
              ELSE Turn("stored", "",
                        Store(sectors, [key |-> id.sector, deleted |-> deleted,
                                        has_data |-> TRUE,
                                        data |-> Slice(data_field, 1, bc + 1)]),
                        c2, id_pos, id, unexpected, data_pos, deleted)

\* Lines 110-144, after the ID field passed its CRC.
AcceptedIdTurn(m, param, bits, id_pos, track, side, sectors, c, id) ==
    IF id.head # side
       THEN Turn("wrong_head", "", sectors, c, id_pos, id, FALSE, -1, FALSE)
    ELSE IF id.track # track
       THEN Turn("wrong_track", "", sectors, c, id_pos, id, FALSE, -1, FALSE)
    ELSE
      LET unexpected == SectorBytes(id.size) \notin expected_sector_sizes(m)
      IN  IF KeepsEarlier(sectors, id.sector)
             THEN Turn("already", "", sectors, c, id_pos, id, unexpected, -1, FALSE)
          ELSE
            LET sectors1 == Store(sectors, [key |-> id.sector, deleted |-> FALSE,
                                            has_data |-> FALSE, data |-> <<>>])
                found    == DataMarkSearch(m, bits, id_pos)
            IN  IF found.raises
                   THEN Turn("raised", "AttributeError", sectors1, c, id_pos, id,
                             unexpected, found.data_pos, FALSE)
                ELSE IF ~found.found
                   THEN Turn("no_data", "", sectors1, c, id_pos, id, unexpected,
                             found.data_pos, FALSE)
                ELSE DataTurn(m, param, bits, id_pos, id, unexpected, sectors1, c,
                              found.data_pos, found.deleted)

\* Lines 86-156 for the ID address mark at id_pos.
IdTurn(m, param, bits, id_pos, track, side, sectors, c) ==
    LET id_slice == Slice(bits, id_pos,
                          id_pos + Len(id_address_mark(m))
                                 + (16 * (id_field_length(m) + 2)))
    IN  IF DecodeRaises(id_slice)
           THEN Turn("raised", "IndexError", sectors, c, id_pos, NoId, FALSE, -1, FALSE)
        ELSE
          LET id_field == decode(id_slice)
              c1       == FieldCRC(m, param, c, id_field)
          IN  IF get(param, c1.reg) # IntToWord(0, param.order)
                 THEN Turn("bad_id_crc", "", sectors, c1, id_pos, NoId, FALSE, -1, FALSE)
              ELSE IF IdUnpackRaises(m, id_field)
                 THEN Turn("raised", "ValueError", sectors, c1, id_pos, NoId, FALSE,
                           -1, FALSE)
              ELSE AcceptedIdTurn(m, param, bits, id_pos, track, side, sectors, c1,
                                  IdValues(m, id_field))

----------------------------------------------------------------------------
(* The flux images the track decoder is run on.  A block is given by the    *)
(* channel-bit string the ADPLL returns for its flux (SpecADPLL is the      *)
(* ADPLL itself); the string is laid out from parts: gaps, address marks,   *)
(* ID fields and data fields with good or bad CRCs.  Field bytes are        *)
(* written with every clock bit 1, which no address mark has.               *)

Part(k, n, t, h, sec, z, ok, del, v) ==
    [k |-> k, n |-> n, t |-> t, h |-> h, s |-> sec, z |-> z, ok |-> ok,
     del |-> del, v |-> v]

Gap(n)                  == Part("gap", n, 0, 0, 0, 0, TRUE, FALSE, 0)
IndexMark               == Part("index", 0, 0, 0, 0, 0, TRUE, FALSE, 0)
IdPart(t, h, sec, z, ok) == Part("id", 0, t, h, sec, z, ok, FALSE, 0)
BareMark(del)           == Part("mark", 0, 0, 0, 0, 0, TRUE, del, 0)
BareIdMark              == Part("idmark", 0, 0, 0, 0, 0, TRUE, FALSE, 0)
IdMarkTail(n)           == Part("idmark_tail", n, 0, 0, 0, 0, TRUE, FALSE, 0)
DataPart(del, n, v, ok) == Part("data", n, 0, 0, 0, 0, ok, del, v)

EncodeBytes(bytes) ==
    Tuple([k \in 1..(16 * Len(bytes)) |->
             IF k % 2 = 1 THEN 1
             ELSE Bit(bytes[((k - 1) \div 16) + 1], 7 - (((k - 1) % 16) \div 2))],
          16 * Len(bytes))

GapBits(n) == Tuple([k \in 1..n |-> k % 2], n)

\* A payload of n bytes: v, then 0xE5.
Payload(n, v) == Tuple([i \in 1..n |-> IF i = 1 THEN v ELSE 229], n)

TrackCRCParam(m) == DecoderCRCParam(crc_init(m), lsb_first(m))

\* The two bytes that bring the decoder's CRC register to zero after the
\* covered bytes (the last one spoilt when ok is false).
Trailer(m, covered, ok) ==
    LET param == TrackCRCParam(m)
        c     == get(param, comp(param, NewCRC(param), covered).reg)
        hi    == WordToInt(SubSeq(c, 1, 8))
        lo    == WordToInt(SubSeq(c, 9, 16))
        b1    == IF param.refin THEN reflect(hi, 8) ELSE hi
        b2    == IF param.refin THEN reflect(lo, 8) ELSE lo
    IN  <<b1, IF ok THEN b2 ELSE BitXor(b2, 1)>>

FieldBits(m, mark, body, ok) ==
    LET mark_bytes == decode(mark)
        covered    == IF crc_includes_address_mark(m) THEN mark_bytes \o body
                      ELSE Tail(mark_bytes) \o body
    IN  mark \o EncodeBytes(body \o Trailer(m, covered, ok))

IdBytes(m, part) ==
    IF id_field_length(m) = 2 THEN <<part.t, part.s + (128 * part.h)>>
    ELSE <<part.t, part.h, part.s, part.z>>

PartBits(m, part) ==
    CASE part.k = "gap"   -> GapBits(part.n)
      [] part.k = "index" -> index_address_mark(m)
      [] part.k = "id"    -> FieldBits(m, id_address_mark(m), IdBytes(m, part), part.ok)
      [] part.k = "idmark" -> id_address_mark(m)
      [] part.k = "idmark_tail" ->
             SubSeq(id_address_mark(m), Len(id_address_mark(m)) - part.n + 1,
                    Len(id_address_mark(m)))
      [] part.k = "mark"  -> IF part.del THEN deleted_data_address_mark(m)
                             ELSE data_address_mark(m)
      [] part.k = "data"  -> FieldBits(m,
                                       IF part.del THEN deleted_data_address_mark(m)
                                       ELSE data_address_mark(m),
                                       Payload(part.n, part.v), part.ok)

RECURSIVE LayoutBits(_, _)
LayoutBits(m, parts) ==
    IF parts = <<>> THEN <<>>
    ELSE PartBits(m, Head(parts)) \o LayoutBits(m, Tail(parts))

\* The length of the ID slice, and the nominal ID-to-data distance used to
\* lay a track out (MFM defines none; its tracks use 600).
IdSliceLen(m) == Len(id_address_mark(m)) + (16 * (id_field_length(m) + 2))
NominalGap(m) == IF HasIdToDataHalfBits(m) THEN id_to_data_half_bits(m) ELSE 600
SizeCode(m)   == sector_size_map[default_bytes_per_sector(m)]

\* An ID field and, dist half-bits after its mark, a data field of n bytes.
SectorParts(m, t, h, sec, z, idok, dist, del, n, v, dok) ==
    <<IdPart(t, h, sec, z, idok), Gap(dist - IdSliceLen(m)), DataPart(del, n, v, dok)>>

GoodSector(m, t, h, sec, del, v) ==
    SectorParts(m, t, h, sec, SizeCode(m), TRUE, NominalGap(m), del,
                default_bytes_per_sector(m), v, TRUE)

\* The blocks a flux image may hold at (track, side, 1): none ("missing"),
\* one with fewer than two flux transitions ("empty"), or one whose flux
\* gives the channel bits of the parts ("flux").
Block(name, kind, parts) == [name |-> name, kind |-> kind, parts |-> parts]

Lead == <<Gap(32)>>

BasicBlocks(m, t, h) ==
    { Block("missing", "missing", <<>>),
      Block("blank", "flux", Lead),
      Block("good", "flux", Lead \o GoodSector(m, t, h, 1, FALSE, 17) \o Lead) }

CommonBlocks(m, t, h) ==
    { Block("empty", "empty", <<>>),
      Block("no_data", "flux",
            Lead \o <<IdPart(t, h, 1, SizeCode(m), TRUE), Gap(NominalGap(m) + 200)>>
                 \o GoodSector(m, t, h, 2, FALSE, 34) \o Lead),
      Block("bad_crcs", "flux",
            Lead \o <<IdPart(t, h, 3, SizeCode(m), FALSE), Gap(64)>>
                 \o SectorParts(m, t, h, 1, SizeCode(m), TRUE, NominalGap(m), FALSE,
                                default_bytes_per_sector(m), 17, FALSE)
                 \o Lead),
      Block("wrong_place", "flux",
            Lead \o <<IdPart(t + 1, h, 1, SizeCode(m), TRUE), Gap(64),
                      IdPart(t, 1 - h, 2, SizeCode(m), TRUE), Gap(64)>>),
      Block("cut_short", "flux", Lead \o <<BareIdMark, Gap(1)>>) }

\* Two occurrences of sector 1, with different payloads; in "retry" sector 2
\* stands between them.
RepeatBlocks(m, t, h) ==
    { Block("twice_good", "flux",
            Lead \o GoodSector(m, t, h, 1, FALSE, 17) \o Lead
                 \o GoodSector(m, t, h, 1, FALSE, 34) \o Lead),
      Block("bad_then_good", "flux",
            Lead \o SectorParts(m, t, h, 1, SizeCode(m), TRUE, NominalGap(m), FALSE,
                                default_bytes_per_sector(m), 17, FALSE)
                 \o Lead \o GoodSector(m, t, h, 1, FALSE, 34) \o Lead),
      Block("good_then_bad", "flux",
            Lead \o GoodSector(m, t, h, 1, FALSE, 17) \o Lead
                 \o SectorParts(m, t, h, 1, SizeCode(m), TRUE, NominalGap(m), FALSE,
                                default_bytes_per_sector(m), 34, FALSE)
                 \o Lead),
      Block("retry", "flux",
            Lead \o SectorParts(m, t, h, 1, SizeCode(m), TRUE, NominalGap(m), FALSE,
                                default_bytes_per_sector(m), 17, FALSE)
                 \o Lead \o GoodSector(m, t, h, 2, FALSE, 34)
                 \o Lead \o GoodSector(m, t, h, 1, FALSE, 51) \o Lead) }

\* Data marks at other places than the nominal one, deleted data, an index
\* mark, a size code other than the modulation's, and an ID mark followed by
\* its own last 11 bits (the FM mark occurs again 11 bits after its start).
MarkBlocks(m, t, h) ==
    { Block("deleted", "flux",
            Lead \o GoodSector(m, t, h, 1, TRUE, 17) \o Lead
                 \o GoodSector(m, t, h, 2, FALSE, 34) \o Lead),
      Block("early_mark", "flux",
            Lead \o <<IdPart(t, h, 1, SizeCode(m), TRUE),
                      Gap(200 - IdSliceLen(m)), BareMark(FALSE),
                      Gap(NominalGap(m) - 200 - Len(data_address_mark(m))),
                      DataPart(FALSE, default_bytes_per_sector(m), 17, TRUE)>>
                 \o Lead),
      Block("early_deleted_mark", "flux",
            Lead \o <<IdPart(t, h, 1, SizeCode(m), TRUE),
                      Gap(200 - IdSliceLen(m)), BareMark(TRUE),
                      Gap(NominalGap(m) - 200 - Len(data_address_mark(m))),
                      DataPart(TRUE, default_bytes_per_sector(m), 17, TRUE)>>
                 \o Lead),
      Block("late_mark", "flux",
            Lead \o SectorParts(m, t, h, 1, SizeCode(m), TRUE, NominalGap(m) + 60,
                                FALSE, default_bytes_per_sector(m), 17, TRUE)
                 \o Lead),
      Block("other_size", "flux",
            Lead \o SectorParts(m, t, h, 1, SizeCode(m) + 1, TRUE, NominalGap(m),
                                FALSE, 2 * default_bytes_per_sector(m), 17, TRUE)
                 \o Lead),
      Block("index_good", "flux",
            Lead \o <<IndexMark>> \o Lead \o GoodSector(m, t, h, 1, FALSE, 17) \o Lead),
      Block("overlap", "flux",
            Lead \o <<BareIdMark, IdMarkTail(11), Gap(IdSliceLen(m))>>) }

Blocks(m, t, h) ==
    IF t > 0 THEN BasicBlocks(m, t, h)
    ELSE CASE m = "FM" ->
                BasicBlocks(m, t, h) \cup CommonBlocks(m, t, h)
                   \cup RepeatBlocks(m, t, h) \cup MarkBlocks(m, t, h)
           [] m = "IntelM2FM" ->
                BasicBlocks(m, t, h) \cup CommonBlocks(m, t, h)
                   \cup {b \in MarkBlocks(m, t, h) : b.name \in {"deleted", "early_mark"}}
           [] m = "HPM2FM" ->
                BasicBlocks(m, t, h) \cup CommonBlocks(m, t, h)
                   \cup {b \in RepeatBlocks(m, t, h) : b.name = "twice_good"}
           [] m = "MFM" -> BasicBlocks(m, t, h)

----------------------------------------------------------------------------
(* SpecRun: fluxtoimd.py from the parsed command line to imd.write.  One    *)
(* turn of the track/side loop is DumpTrackBegin, a DumpTrackId for every   *)
(* ID address mark, and TrackDone (dump_track returns and the loop body     *)
(* forwards the sectors); DumpTrackMissing and DumpTrackEmpty are the turns *)
(* dump_track leaves by an exception.                                       *)

MaxTracks == 2

\* args.index after lines 190-192.
IndexOption(m, index) == index /\ m # "HPM2FM"

ArgsSet ==
    { [modulation |-> m, sides |-> sd, tracks |-> t, index |-> IndexOption(m, ix),
       verbose |-> v] :
        m \in Modulations, sd \in {1, 2}, t \in 1..MaxTracks, ix \in BOOLEAN,
        v \in BOOLEAN }

\* Lines 221-224.
NoTotals ==
    [bad_sectors |-> 0, data_sectors |-> 0, deleted_sectors |-> 0, total_sectors |-> 0]

\* Line 218: modulation.py defines no default_first_sector; sectors are
\* numbered from 1 on the IBM and Intel formats and from 0 on the HP format.
first_sector(m) == IF m = "HPM2FM" THEN 0 ELSE 1

\* Lines 237-252 for one sector_num: total_sectors counts every turn, the
\* three other counters only under args.verbose.
TallyOne(t, track, sector_num, verbose) ==
    LET counted == [t EXCEPT !.total_sectors = @ + 1]
    IN  IF ~verbose THEN counted
        ELSE IF ~HasKey(track, sector_num)
           THEN [counted EXCEPT !.bad_sectors = @ + 1]
        ELSE IF Lookup(track, sector_num).deleted
           THEN [counted EXCEPT !.deleted_sectors = @ + 1]
        ELSE [counted EXCEPT !.data_sectors = @ + 1]

\* Lines 237-252: the loop over range(first, first + count).
RECURSIVE Tally(_, _, _, _, _)
Tally(t, track, first, count, verbose) ==
    IF count = 0 THEN t
    ELSE LET one == TallyOne(t, track, first, verbose)
         IN  Then(one, Tally(one, track, first + 1, count - 1, verbose))

\* range(args.sides - 1) of line 229, and the number of turns of the loops
\* of lines 228-229.
SideRange(a) == 0..(a.sides - 2)
NumIter(a)   == a.tracks * Cardinality(SideRange(a))

\* track_num and side_num of the turn in progress.
track_num == iter \div Cardinality(SideRange(args))
side_num  == iter % Cardinality(SideRange(args))

RunIdle ==
    /\ args = EmptyMap
    /\ run_pc = "off"
    /\ run_error = ""
    /\ iter = 0
    /\ dt_block = ""
    /\ dt_bits = <<>>
    /\ dt_locs = <<>>
    /\ dt_i = 0
    /\ dt_sectors = <<>>
    /\ dt_events = <<>>
    /\ imd_tracks = EmptyMap
    /\ ws_calls = <<>>
    /\ decoded = {}
    /\ totals = NoTotals

\* Lines 186-226: the image is read, imd = ImageDisk(), crc = CRC(crc_param),
\* crc.make_table(8).
RunInit ==
    /\ args \in ArgsSet
    /\ run_pc = "loop"
    /\ run_error = ""
    /\ iter = 0
    /\ dt_block = ""
    /\ dt_bits = <<>>
    /\ dt_locs = <<>>
    /\ dt_i = 0
    /\ dt_sectors = <<>>
    /\ dt_events = <<>>
    /\ imd_tracks = EmptyMap
    /\ ws_calls = <<>>
    /\ decoded = {}
    /\ totals = NoTotals
    /\ crc_param = TrackCRCParam(args.modulation)
    /\ crc_reg = make_table(crc_param, NewCRC(crc_param), 8).reg
    /\ crc_tables = make_table(crc_param, NewCRC(crc_param), 8).tables
    /\ crc_cache = make_table(crc_param, NewCRC(crc_param), 8).cache
    /\ crc_fed = <<>>
    /\ crc_sealed = FALSE

Crash(error) ==
    /\ run_pc' = "crashed"
    /\ run_error' = error

\* Line 59: image.blocks[(track, side, 1)] raises KeyError.
DumpTrackMissing ==
    /\ run_pc = "loop"
    /\ iter < NumIter(args)
    /\ \E blk \in Blocks(args.modulation, track_num, side_num) :
         /\ blk.kind = "missing"
         /\ dt_block' = blk.name
    /\ Crash("KeyError")
    /\ UNCHANGED <<args, iter, dt_bits, dt_locs, dt_i, dt_sectors, dt_events,
                   imd_tracks, ws_calls, decoded, totals, crcVars>>

\* Lines 61-68: the block's delta iterator is empty and ADPLL.__init__
\* (adpll.py line 46) lets StopIteration out.
DumpTrackEmpty ==
    /\ run_pc = "loop"
    /\ iter < NumIter(args)
    /\ \E blk \in Blocks(args.modulation, track_num, side_num) :
         /\ blk.kind = "empty"
         /\ dt_block' = blk.name
    /\ Crash("StopIteration")
    /\ UNCHANGED <<args, iter, dt_bits, dt_locs, dt_i, dt_sectors, dt_events,
                   imd_tracks, ws_calls, decoded, totals, crcVars>>

\* Lines 57-83: sectors = OrderedDict(), the bits of the block, the index
\* mark test (an empty map is returned when none is found), the ID marks.
DumpTrackBegin ==
    /\ run_pc = "loop"
    /\ iter < NumIter(args)
    /\ \E blk \in Blocks(args.modulation, track_num, side_num) :
         /\ blk.kind = "flux"
         /\ LET bits == LayoutBits(args.modulation, blk.parts)
            IN  /\ dt_block' = blk.name
                /\ dt_bits' = bits
                /\ dt_locs' = IF args.index
                                 /\ FindIter(bits, index_address_mark(args.modulation)) = <<>>
                                 THEN <<>>
                              ELSE FindIter(bits, id_address_mark(args.modulation))
    /\ run_pc' = "ids"
    /\ dt_i' = 1
    /\ dt_sectors' = <<>>
    /\ dt_events' = <<>>
    /\ UNCHANGED <<args, run_error, iter, imd_tracks, ws_calls, decoded, totals,
                   crcVars>>

\* What a turn leaves in dt_events.
Event(r) ==
    [outcome |-> r.outcome, raises |-> r.raises, id_pos |-> r.id_pos, id |-> r.id,
     unexpected_size |-> r.unexpected_size, data_pos |-> r.data_pos,
     deleted |-> r.deleted]

\* Lines 85-156: one turn of the loop over id_address_mark_locs.
DumpTrackId ==
    /\ run_pc = "ids"
    /\ dt_i <= Len(dt_locs)
    /\ LET r == IdTurn(args.modulation, crc_param, dt_bits, dt_locs[dt_i],
                       track_num, side_num, dt_sectors, CrcObj)
       IN  /\ dt_sectors' = r.sectors
           /\ SetCrcObj(r.crc)
           /\ dt_events' = Append(dt_events, Event(r))
           /\ IF r.raises # ""
                 THEN Crash(r.raises) /\ UNCHANGED dt_i
              ELSE dt_i' = dt_i + 1 /\ UNCHANGED <<run_pc, run_error>>
    /\ UNCHANGED <<args, iter, dt_block, dt_bits, dt_locs, imd_tracks, ws_calls,
                   decoded, totals, crc_param, crc_fed, crc_sealed>>

\* Mutant of ForwardAll: every entry of the map goes to imd.write_sector,
\* those without data included.
RECURSIVE ForwardAllEntries(_, _, _, _, _, _)
ForwardAllEntries(tracks, calls, entries, mode, cylinder, head) ==
    IF entries = <<>> THEN [tracks |-> tracks, calls |-> calls, error |-> ""]
    ELSE
      LET e      == Head(entries)
          w      == write_sector(tracks, mode, cylinder, head, e.key, e.data,
                                 e.deleted, FALSE)
          calls1 == Append(calls, [mode |-> mode, cylinder |-> cylinder,
                                   head |-> head, sector |-> e.key,
                                   data |-> e.data, deleted |-> e.deleted])
      IN  IF w.error # ""
             THEN [tracks |-> w.tracks, calls |-> calls1, error |-> w.error]
          ELSE ForwardAllEntries(w.tracks, calls1, Tail(entries), mode, cylinder, head)

\* Lines 258-271: every entry of the returned map that has data goes to
\* imd.write_sector, in the map's order; an exception ends the loop.
RECURSIVE ForwardAll(_, _, _, _, _, _)
ForwardAll(tracks, calls, entries, mode, cylinder, head) ==
    IF entries = <<>> THEN [tracks |-> tracks, calls |-> calls, error |-> ""]
    ELSE
      LET e == Head(entries)
      IN  IF ~e.has_data
             THEN ForwardAll(tracks, calls, Tail(entries), mode, cylinder, head)
          ELSE
            LET w      == write_sector(tracks, mode, cylinder, head, e.key, e.data,
                                       e.deleted, FALSE)
                calls1 == Append(calls, [mode |-> mode, cylinder |-> cylinder,
                                         head |-> head, sector |-> e.key,
                                         data |-> e.data, deleted |-> e.deleted])
            IN  IF w.error # ""
                   THEN [tracks |-> w.tracks, calls |-> calls1, error |-> w.error]
                ELSE ForwardAll(w.tracks, calls1, Tail(entries), mode, cylinder, head)

\* Line 158 and lines 230-271: dump_track returns sectors, the loop body
\* forwards them, and the loop goes to its next turn.
TrackDone ==
    /\ run_pc = "ids"
    /\ dt_i > Len(dt_locs)
    /\ LET f == ForwardAll(imd_tracks, ws_calls, dt_sectors,
                           imagedisk_mode(args.modulation), track_num, side_num)
       IN  /\ imd_tracks' = f.tracks
           /\ ws_calls' = f.calls
           /\ IF f.error # "" THEN Crash(f.error) /\ UNCHANGED iter
              ELSE /\ run_pc' = "loop"
                   /\ iter' = iter + 1
                   /\ UNCHANGED run_error
    /\ decoded' = decoded \cup {<<track_num, side_num>>}
    /\ totals' = Tally(totals, dt_sectors, first_sector(args.modulation),
                       default_sectors_per_track(args.modulation), args.verbose)
    /\ dt_block' = ""
    /\ dt_bits' = <<>>
    /\ dt_locs' = <<>>
    /\ dt_i' = 0
    /\ dt_sectors' = <<>>
    /\ dt_events' = <<>>
    /\ UNCHANGED <<args, crcVars>>

\* Lines 273-276: the loops are over; imd.write.
WriteImage ==
    /\ run_pc = "loop"
    /\ iter = NumIter(args)
    /\ run_pc' = "done"
    /\ UNCHANGED <<args, run_error, iter, dt_block, dt_bits, dt_locs, dt_i,
                   dt_sectors, dt_events, imd_tracks, ws_calls, decoded, totals,
                   crcVars>>

----------------------------------------------------------------------------
(* The claims about the track/side loop and dump_track.                     *)

\* The pairs the run is asked to decode.
RequestedPairs == (0..(args.tracks - 1)) \X (0..(args.sides - 1))

\* C1 as stated: when the run completes, dump_track has been run for every
\* (track, side) pair with 0 <= track < tracks and 0 <= side < sides, and
\* the write_sector calls carry cylinder = track and head = side of such
\* pairs.
C1_Original ==
    run_pc = "done" =>
        /\ \A pair \in RequestedPairs : pair \in decoded
        /\ \A i \in 1..Len(ws_calls) :
             <<ws_calls[i].cylinder, ws_calls[i].head>> \in decoded

\* C2 as stated: a missing block, or a block whose delta iterator is empty,
\* does not end the run: no exception escapes dump_track for it.
C2_Original ==
    ~(run_pc = "crashed" /\ dt_block \in {"missing", "empty"})

\* dump_track is at its return statement.
AtReturn == run_pc = "ids" /\ dt_i > Len(dt_locs)

\* The register of a fresh table-less CRC object after the bytes the
\* modulation puts under the CRC is zero.
CrcZero(m, field) ==
    LET param == TrackCRCParam(m)
        c     == comp(param, NewCRC(param),
                      IF crc_includes_address_mark(m) THEN field ELSE Tail(field))
    IN  get(param, c.reg) = IntToWord(0, 16)

\* The bits hold at p an ID field with zero CRC that declares (t, h, sec).
GoodIdAt(m, bits, p, t, h, sec) ==
    LET field == decode(Slice(bits, p, p + IdSliceLen(m)))
    IN  /\ Len(field) = IdSliceLen(m) \div 16
        /\ CrcZero(m, field)
        /\ IdValues(m, field).track = t
        /\ IdValues(m, field).head = h
        /\ IdValues(m, field).sector = sec

\* The places of the data address marks (deleted ones when del) in the bits.
MarkPlaces(m, bits, del) ==
    LET mark == IF del THEN deleted_data_address_mark(m) ELSE data_address_mark(m)
    IN  {q \in 0..(Len(bits) - Len(mark)) : MatchAt(bits, mark, q)}

\* The bits hold at q a DATA field with zero CRC whose payload is data.
GoodDataAt(m, bits, q, data) ==
    LET n     == Len(data)
        field == decode(Slice(bits, q, q + Len(id_address_mark(m)) + (16 * (n + 2))))
    IN  /\ Len(field) = (Len(id_address_mark(m)) \div 16) + n + 2
        /\ CrcZero(m, field)
        /\ SubSeq(field, 2, n + 1) = data

\* An entry of the map has an ID field behind it, and a DATA field when it
\* holds data.
EntryBacked(e) ==
    /\ \E i \in 1..(dt_i - 1) :
         GoodIdAt(args.modulation, dt_bits, dt_locs[i], track_num, side_num, e.key)
    /\ e.has_data =>
         \E q \in MarkPlaces(args.modulation, dt_bits, e.deleted) :
            GoodDataAt(args.modulation, dt_bits, q, e.data)

\* The turns that went on to look for data and did not get it.
FailedData(ev) == ev.outcome \in {"no_data", "bad_data_crc"}

\* C3 as stated: every entry of the returned map has an ID field with zero
\* CRC and the decoder's (track, head) behind it and holds the payload of a
\* DATA field with zero CRC; a sector whose data was not got has no entry.
C3_Original ==
    AtReturn =>
        \A i \in 1..Len(dt_sectors) :
            EntryBacked(dt_sectors[i]) /\ dt_sectors[i].has_data

\* C3, amended: every entry of the map has an ID field with zero CRC and the
\* decoder's (track, head) behind it; an entry that holds data holds the
\* payload of a DATA field with zero CRC; a sector number whose ID passed
\* and whose data was not got keeps an entry, which holds no data unless
\* another occurrence of the number gave it.
C3_Amended ==
    run_pc = "ids" =>
        /\ \A i \in 1..Len(dt_sectors) : EntryBacked(dt_sectors[i])
        /\ \A j \in 1..Len(dt_events) :
             FailedData(dt_events[j]) =>
                /\ HasKey(dt_sectors, dt_events[j].id.sector)
                /\ Lookup(dt_sectors, dt_events[j].id.sector).has_data =>
                     \E k \in 1..Len(dt_events) :
                        /\ dt_events[k].outcome = "stored"
                        /\ dt_events[k].id.sector = dt_events[j].id.sector

\* dump_track returns a map with an entry that holds data and an entry that
\* holds none.
C3_Witness ==
    /\ AtReturn
    /\ \E i \in 1..Len(dt_sectors) : dt_sectors[i].has_data
    /\ \E i \in 1..Len(dt_sectors) : ~dt_sectors[i].has_data

\* The turns that went past line 124 and looked for the sector's data.
LookedForData(ev) == ev.outcome \in {"no_data", "bad_data_crc", "stored"}

\* C4: within one track decode, a turn of the ID loop leaves every entry
\* that holds data as it is, and a turn looks for the data of a sector number
\* only when no earlier turn stored data for that number.
C4_FirstGoodWins ==
    [][ (run_pc = "ids" /\ dt_i <= Len(dt_locs)) =>
          /\ \A i \in 1..Len(dt_sectors) :
               dt_sectors[i].has_data =>
                  /\ i <= Len(dt_sectors')
                  /\ dt_sectors'[i] = dt_sectors[i]
          /\ LET ev == dt_events'[Len(dt_events')]
             IN  LookedForData(ev) =>
                    /\ ~(HasKey(dt_sectors, ev.id.sector)
                         /\ Lookup(dt_sectors, ev.id.sector).has_data)
                    /\ \A j \in 1..Len(dt_events) :
                         dt_events[j].id.sector = ev.id.sector =>
                            dt_events[j].outcome # "stored" ]_vars

\* A second valid occurrence of sector 1 (payload 34...) has been passed
\* over, and the entry holds the payload of the first (17...).
C4_Witness ==
    /\ AtReturn
    /\ dt_block = "twice_good"
    /\ Len(dt_events) = 2
    /\ dt_events[1].outcome = "stored"
    /\ dt_events[2].outcome = "already"
    /\ GoodDataAt(args.modulation, dt_bits,
                  dt_locs[2] + NominalGap(args.modulation),
                  Payload(default_bytes_per_sector(args.modulation), 34))
    /\ Lookup(dt_sectors, 1).data[1] = 17

\* The places after the ID slice of the ID mark at p, within the window
\* around id_to_data_half_bits, where a data address mark or (where the
\* modulation has one) a deleted-data address mark stands.
MarksInWindow(m, bits, p) ==
    {q \in (p + id_to_data_half_bits(m) - 50)..(p + id_to_data_half_bits(m) + 50) :
        /\ q >= p + IdSliceLen(m)
        /\ \/ q \in MarkPlaces(m, bits, FALSE)
           \/ HasDeletedDataAddressMark(m) /\ q \in MarkPlaces(m, bits, TRUE)}

\* C5 as stated: the turn for an ID mark accepts the first mark in the
\* window, whatever marks stand before the window; deleted is true exactly
\* when that mark is the deleted-data mark; with no mark in the window the
\* ID is abandoned.
C5_Original ==
    run_pc = "ids" =>
        \A j \in 1..Len(dt_events) :
            LET ev == dt_events[j]
                w  == MarksInWindow(args.modulation, dt_bits, ev.id_pos)
            IN  LookedForData(ev) =>
                   IF w = {} THEN ev.outcome = "no_data"
                   ELSE /\ ev.outcome # "no_data"
                        /\ ev.data_pos = Min(w)
                        /\ ev.deleted = (HasDeletedDataAddressMark(args.modulation)
                                         /\ Min(w) \in MarkPlaces(args.modulation,
                                                                  dt_bits, TRUE))

\* The sector numbers of the events that satisfy Test, in order.
SectorsOf(events, Test(_)) ==
    LET sel == SelectSeq(events, Test)
    IN  Tuple([i \in 1..Len(sel) |-> sel[i].id.sector], Len(sel))

\* A tuple without the later occurrences of its elements.
RECURSIVE FirstOccurrences(_)
FirstOccurrences(q) ==
    IF q = <<>> THEN <<>>
    ELSE LET r == FirstOccurrences(SubSeq(q, 1, Len(q) - 1))
         IN  IF \E i \in 1..Len(r) : r[i] = q[Len(q)] THEN r
             ELSE Append(r, q[Len(q)])

Decoded(ev) == ev.outcome = "stored"
HoldsData(e) == e.has_data

\* C25 as claimed: the sector numbers of the returned map that hold data
\* stand in the order in which their data was first decoded.
C25_Original ==
    AtReturn =>
        Keys(SelectSeq(dt_sectors, HoldsData)) = SectorsOf(dt_events, Decoded)

\* C25, amended: the sector numbers of the map stand in the order in which
\* the ID field of each number was first accepted (zero CRC, head and track
\* of the decode), whether its data was decoded then, later or never; the
\* entries that hold data are forwarded to write_sector in that order, and
\* the sector-number map ImageDisk writes for the track has that order.
C25_Amended ==
    /\ [](run_pc = "ids" =>
            Keys(dt_sectors) = FirstOccurrences(SectorsOf(dt_events, LookedForData)))
    /\ [][ (AtReturn /\ run_pc' = "loop") =>
             LET held == Keys(SelectSeq(dt_sectors, HoldsData))
                 tc   == <<track_num, side_num>>
             IN  /\ Len(ws_calls') = Len(ws_calls) + Len(held)
                 /\ \A i \in 1..Len(held) :
                       ws_calls'[Len(ws_calls) + i].sector = held[i]
                 /\ held # <<>> =>
                       /\ Keys(imd_tracks'[tc]) = held
                       /\ SubSeq(write_track(imd_tracks', tc).bytes, 6, 5 + Len(held))
                             = held ]_vars

\* Sector 1's ID came first and its data failed, sector 2 was decoded, then
\* sector 1: the map and the image hold 1 before 2.
C25_Witness ==
    /\ run_pc = "loop"
    /\ <<0, 0>> \in DOMAIN imd_tracks
    /\ Keys(imd_tracks[<<0, 0>>]) = <<1, 2>>
    /\ imd_tracks[<<0, 0>>][1].data[1] = 51
    /\ imd_tracks[<<0, 0>>][2].data[1] = 34

\* The offsets at which the ID address mark occurs in the bits of the track.
IdMarkOffsets ==
    {q \in 0..(Len(dt_bits) - Len(id_address_mark(args.modulation))) :
        MatchAt(dt_bits, id_address_mark(args.modulation), q)}

\* dump_track went on to the ID mark search (it did not return at line 81)
\* and has just made it.
SearchedIds ==
    /\ run_pc = "ids"
    /\ dt_i = 1
    /\ ~(args.index /\ FindIter(dt_bits, index_address_mark(args.modulation)) = <<>>)

\* C26 as claimed: every offset at which the ID mark occurs, an occurrence
\* that overlaps a previous match included, is an ID candidate.
C26_Original ==
    SearchedIds =>
        \A q \in IdMarkOffsets : \E i \in 1..Len(dt_locs) : dt_locs[i] = q

\* C26, amended: the ID candidates are the occurrences of the mark found
\* from left to right without overlap: each candidate is an occurrence, a
\* candidate starts no earlier than the end of the one before it, and an
\* occurrence that is no candidate starts inside a candidate's 16 or 32 bits.
C26_Amended ==
    SearchedIds =>
        LET len == Len(id_address_mark(args.modulation))
        IN  /\ \A i \in 1..Len(dt_locs) : dt_locs[i] \in IdMarkOffsets
            /\ \A i \in 1..(Len(dt_locs) - 1) : dt_locs[i] + len <= dt_locs[i + 1]
            /\ \A q \in IdMarkOffsets :
                  \/ \E i \in 1..Len(dt_locs) : dt_locs[i] = q
                  \/ \E i \in 1..Len(dt_locs) : dt_locs[i] < q /\ q < dt_locs[i] + len

\* The FM ID mark occurs at an offset and again 11 bits later; the search
\* gave the first only.
C26_Witness ==
    /\ SearchedIds
    /\ args.modulation = "FM"
    /\ Len(dt_locs) = 1
    /\ IdMarkOffsets = {dt_locs[1], dt_locs[1] + 11}

\* The bytes of an address mark (1 for a 16-bit mark, 2 for a 32-bit mark).
MarkBytes(m) == Len(id_address_mark(m)) \div 16

\* The ID values held by the id_len bytes that follow the mark byte(s) of a
\* decoded ID field.
ClaimedIdValues(m, id_field) ==
    LET k == MarkBytes(m)
    IN  IF id_field_length(m) = 2
           THEN [track  |-> id_field[k + 1],
                 head   |-> IF id_field[k + 2] < 128 THEN 0 ELSE 1,
                 sector |-> IF id_field[k + 2] < 128 THEN id_field[k + 2]
                            ELSE id_field[k + 2] - 128,
                 size   |-> 1]
           ELSE [track |-> id_field[k + 1], head |-> id_field[k + 2],
                 sector |-> id_field[k + 3], size |-> id_field[k + 4]]

\* The turns whose ID field passed its CRC and was unpacked.
Unpacked(ev) == ev.id # NoId

\* C27 as claimed: under every modulation the ID values of a turn are those
\* of the id_len bytes after the mark byte(s) of the ID field, and the
\* payload stored for a sector is the 128 << size bytes between the mark
\* byte(s) of the data field and its CRC.
C27_Original ==
    run_pc = "ids" =>
        \A j \in 1..Len(dt_events) :
            LET ev       == dt_events[j]
                m        == args.modulation
                id_field == decode(Slice(dt_bits, ev.id_pos, ev.id_pos + IdSliceLen(m)))
                bc       == SectorBytes(ev.id.size)
                data_field ==
                    decode(Slice(dt_bits, ev.data_pos,
                                 ev.data_pos + Len(id_address_mark(m)) + ((bc + 2) * 16)))
            IN  /\ Unpacked(ev) => ev.id = ClaimedIdValues(m, id_field)
                /\ Decoded(ev) =>
                      Lookup(dt_sectors, ev.id.sector).data =
                          SubSeq(data_field, MarkBytes(m) + 1, MarkBytes(m) + bc)

\* C30: the write_sector calls of a track decode are one for each entry of
\* the returned map that holds data, and none for the others; each carries
\* the modulation's ImageDisk mode, cylinder and head of the (track, side)
\* being decoded, the entry's sector number and its data, which is the
\* payload of a DATA field with zero CRC standing behind a deleted-data mark
\* when deleted is true and behind a data mark when it is false; no other
\* step makes a call, and no (cylinder, head, sector) is written twice.
C30_WriteCalls ==
    /\ [][ IF AtReturn
             THEN LET held == SelectSeq(dt_sectors, HoldsData)
                      m    == args.modulation
                  IN  /\ Len(ws_calls') = Len(ws_calls) + Len(held)
                      /\ SubSeq(ws_calls', 1, Len(ws_calls)) = ws_calls
                      /\ \A i \in 1..Len(held) :
                            LET call == ws_calls'[Len(ws_calls) + i]
                            IN  /\ call.mode = imagedisk_mode(m)
                                /\ call.cylinder = track_num
                                /\ call.head = side_num
                                /\ call.sector = held[i].key
                                /\ call.data = held[i].data
                                /\ call.data # <<>>
                                /\ call.deleted = held[i].deleted
                                /\ \E q \in MarkPlaces(m, dt_bits, call.deleted) :
                                      GoodDataAt(m, dt_bits, q, call.data)
             ELSE ws_calls' = ws_calls ]_vars
    /\ [](\A i, j \in 1..Len(ws_calls) :
            (/\ ws_calls[i].cylinder = ws_calls[j].cylinder
             /\ ws_calls[i].head = ws_calls[j].head
             /\ ws_calls[i].sector = ws_calls[j].sector) => i = j)

\* A run has ended in which a sector with deleted data and one with data
\* were written and an entry without data was not.
C30_Witness ==
    /\ run_pc = "done"
    /\ \E i \in 1..Len(ws_calls) : ws_calls[i].deleted
    /\ \E i \in 1..Len(ws_calls) : ~ws_calls[i].deleted
    /\ Len(ws_calls) = 2

\* C15 as stated: under the modulation of the run, decode of each address
\* mark's channel bits gives the data byte(s) the mark was encoded from.
C15_Original ==
    \A mark \in AddressMarks(args.modulation) : decode(mark.bits) = mark.data

\* The sector numbers the tally runs over.
ExpectedSectors ==
    first_sector(args.modulation)
    ..(first_sector(args.modulation) + default_sectors_per_track(args.modulation) - 1)

\* The number of expected sectors whose DATA field was decoded with valid
\* CRC (they are the ones forwarded to write_sector) under a deleted-data
\* mark (deleted = TRUE) or a data mark (deleted = FALSE).
GoodSectors(deleted) ==
    Cardinality({i \in 1..Len(ws_calls) :
                    /\ ws_calls[i].deleted = deleted
                    /\ ws_calls[i].sector \in ExpectedSectors})

\* C16 as stated: at the end of a run, with or without -v, total =
\* tracks x sides x sectors_per_track, data + deleted + bad = total, and the
\* data and deleted counts are those of the valid decodes.
C16_Original ==
    run_pc = "done" =>
        /\ totals.total_sectors =
              args.tracks * args.sides * default_sectors_per_track(args.modulation)
        /\ totals.data_sectors + totals.deleted_sectors + totals.bad_sectors
              = totals.total_sectors
        /\ totals.data_sectors = GoodSectors(FALSE)
        /\ totals.deleted_sectors = GoodSectors(TRUE)

\* C6 as stated: an ID field with a size outside the modulation's set is
\* discarded: the turn records no map entry and looks for no data.
C6_Original ==
    run_pc = "ids" =>
        \A j \in 1..Len(dt_events) :
            dt_events[j].unexpected_size =>
                /\ ~LookedForData(dt_events[j])
                /\ ~HasKey(dt_sectors, dt_events[j].id.sector)

----------------------------------------------------------------------------
(* fluximage.py, dfi.py: flux blocks.  A block is a record of its           *)
(* flux_trans_abs, its index_pos and, when the constructor sets one, its    *)
(* flux_trans_rel (has_rel).  Times are sample counts.                      *)

FluxBlock(reader, flux_trans_abs, index_pos) ==
    [reader |-> reader, flux_trans_abs |-> flux_trans_abs, index_pos |-> index_pos,
     has_rel |-> FALSE, flux_trans_rel |-> <<>>, raw_data |-> <<>>]

\* FluxImageDummyBlock.__init__
FluxImageDummyBlock ==
    [reader |-> "dummy", flux_trans_abs |-> <<0>>, index_pos |-> <<0>>,
     has_rel |-> TRUE, flux_trans_rel |-> <<0>>, raw_data |-> <<>>]

\* generate_flux_trans_rel: an attribute already there is kept.
generate_flux_trans_rel(block) ==
    IF block.has_rel THEN block.flux_trans_rel
    ELSE Tuple([i \in 1..(Len(block.flux_trans_abs) - 1) |->
                  block.flux_trans_abs[i + 1] - block.flux_trans_abs[i]],
               IF Len(block.flux_trans_abs) > 0 THEN Len(block.flux_trans_abs) - 1
               ELSE 0)

\* b & 0x7f and b & 0x80
Low7(b) == b % 128
High1(b) == b \div 128

\* One turn of the loop of parse_data_version_1 on byte b: the state is
\* [time_inc, flux_trans_abs, index_pos].
ParseStepV1(st, b) ==
    IF Low7(b) = 0 THEN [st EXCEPT !.time_inc = @ + 127]
    ELSE [st EXCEPT !.time_inc = @ + Low7(b),
                    !.flux_trans_abs = Append(@, st.time_inc + Low7(b))]

\* One turn of the loop of parse_data_version_2 on byte b.
ParseStepV2(st, b) ==
    IF Low7(b) = 0 THEN st
    ELSE IF Low7(b) = 127 THEN [st EXCEPT !.time_inc = @ + 127]
    ELSE IF High1(b) # 0
       THEN [st EXCEPT !.time_inc = @ + Low7(b),
                       !.index_pos = Append(@, st.time_inc + Low7(b))]
    ELSE [st EXCEPT !.time_inc = @ + Low7(b),
                    !.flux_trans_abs = Append(@, st.time_inc + Low7(b))]

ParseStart == [time_inc |-> 0, flux_trans_abs |-> <<>>, index_pos |-> <<>>]

RECURSIVE parse_data_version_1(_)
parse_data_version_1(data) ==
    IF data = <<>> THEN ParseStart
    ELSE ParseStepV1(parse_data_version_1(SubSeq(data, 1, Len(data) - 1)),
                     data[Len(data)])

RECURSIVE parse_data_version_2(_)
parse_data_version_2(data) ==
    IF data = <<>> THEN ParseStart
    ELSE ParseStepV2(parse_data_version_2(SubSeq(data, 1, Len(data) - 1)),
                     data[Len(data)])

\* DFIBlock with generate_flux_trans_abs applied to its raw_data.
DFIBlock(version, raw_data) ==
    LET st == IF version = 1 THEN parse_data_version_1(raw_data)
              ELSE parse_data_version_2(raw_data)
    IN  [FluxBlock("dfi", st.flux_trans_abs, st.index_pos) EXCEPT !.raw_data = raw_data]

----------------------------------------------------------------------------
(* SpecRead: one flux image file read by one of the readers.  The file is   *)
(* met read by read: each read is given its bytes, or fewer than it asked   *)
(* for when the file ends there.                                            *)

\* Bound: the number of payload bytes (DFI data bytes, KFSF blocks, SCP cell
\* counts) a file holds at most.
MaxPayload == 3

\* Bound: the number of blocks (DFI blocks, get_block calls) met in one file.
MaxBlocks == 3

\* A read of `wanted` bytes for `what` that got `got` bytes.
Read(what, wanted, got) == [what |-> what, wanted |-> wanted, got |-> got]

ReadIdle ==
    /\ rd_format = ""
    /\ rd_pc = "off"
    /\ rd_error = ""
    /\ rd_st = EmptyMap
    /\ rd_blocks = EmptyMap
    /\ rd_reads = <<>>

\* The reader's fields before its constructor has read anything.
DfiStart == [version |-> 0, eof |-> FALSE, payload |-> 0, calls |-> 0]

\* blocks[key] = block
WithBlock(blocks, key, block) ==
    [k \in DOMAIN blocks \cup {key} |-> IF k = key THEN block ELSE blocks[k]]

ReadFails(error) ==
    /\ rd_pc' = "failed"
    /\ rd_error' = error

\* DFI data bytes: 0x00, 0x05, 0x7f, 0x80, 0x85, 0xff.
DfiBytes == {0, 5, 127, 128, 133, 255}

\* DFI.__init__ lines 143-148: the magic is DFER, DFE2 or something else
\* (a file shorter than 4 bytes included).
DfiOpen ==
    /\ rd_format = "dfi"
    /\ rd_pc = "open"
    /\ \E version \in {0, 1, 2} :
         IF version = 0
            THEN /\ ReadFails("Exception: bad magic")
                 /\ UNCHANGED rd_st
            ELSE /\ rd_pc' = "blocks"
                 /\ rd_st' = [rd_st EXCEPT !.version = version]
                 /\ UNCHANGED rd_error
    /\ rd_reads' = Append(rd_reads, Read("magic", 4, 4))
    /\ UNCHANGED <<rd_format, rd_blocks>>

\* DFI.__init__ lines 151-156 with DFIBlock.__init__ lines 77-80 meeting the
\* end of the file in the 10-byte block header, after `got` bytes of it:
\* get_16_be or get_32_be raises EOFError and the loop is left.
DfiHeaderEOF ==
    /\ rd_format = "dfi"
    /\ rd_pc = "blocks"
    /\ \E got \in {0, 3, 8} :
         /\ rd_st.eof => got = 0
         /\ rd_reads' = Append(rd_reads, Read("header", 10, got))
    /\ rd_pc' = "done"
    /\ rd_st' = [rd_st EXCEPT !.eof = TRUE]
    /\ UNCHANGED <<rd_format, rd_error, rd_blocks>>

\* DFI.__init__ lines 151-154 with DFIBlock.__init__: the header is read,
\* raw_data = dfi.read(data_len) (DFI.read, lines 124-125, is f.read) and
\* the block goes into the map.
DfiBlock ==
    /\ rd_format = "dfi"
    /\ rd_pc = "blocks"
    /\ ~rd_st.eof
    /\ rd_st.calls < MaxBlocks
    /\ \E cylinder \in {0, 1}, data_len \in 0..(MaxPayload - rd_st.payload) :
         \E got \in 0..data_len :
            \E raw_data \in [1..got -> DfiBytes] :
               /\ rd_blocks' = WithBlock(rd_blocks, <<cylinder, 0, 1>>,
                                         DFIBlock(rd_st.version, raw_data))
               /\ rd_reads' = rd_reads \o <<Read("header", 10, 10),
                                            Read("data", data_len, got)>>
               /\ rd_st' = [rd_st EXCEPT !.eof = got < data_len,
                                         !.payload = @ + got,
                                         !.calls = @ + 1]
    /\ UNCHANGED <<rd_format, rd_pc, rd_error>>

----------------------------------------------------------------------------
(* kfsf.py: KryoFlux stream files.                                          *)

\* KyroFluxStream.__init__: the fields before the first get_block.
KfsStart ==
    [overflow |-> 0, stream_end |-> FALSE, logical_eof |-> FALSE,
     prev_flux_sample_counter |-> 0, flux_sample_counter |-> 0,
     flux_trans_abs |-> <<>>, oob_blocks |-> <<>>, index_count |-> 0,
     pending_index_blocks |-> EmptyMap, index_abs |-> <<>>,
     stream_offset |-> 0, block_offset |-> 0]

\* KyroFluxStream.flux_change, with KyroFluxIndex.found_target_flux.
flux_change(st, offset) ==
    LET counter == st.flux_sample_counter + st.overflow + offset
        pending == st.pending_index_blocks
        hit     == st.stream_offset \in DOMAIN pending
    IN  [st EXCEPT
           !.flux_sample_counter = counter,
           !.overflow = 0,
           !.flux_trans_abs = Append(@, counter),
           !.index_abs = IF hit
                            THEN Append(@, st.prev_flux_sample_counter
                                           + pending[st.stream_offset].sample_counter)
                            ELSE @,
           !.pending_index_blocks =
               IF hit THEN [k \in DOMAIN pending \ {st.stream_offset} |-> pending[k]]
                      ELSE @,
           !.prev_flux_sample_counter = counter]

\* The bytes the code asks for after an OOB block's 4-byte header, by type.
OobPayloadSizes(oob_type, oob_length) ==
    CASE oob_type = 1  -> <<4, 4>>
      [] oob_type = 2  -> <<4, 4, 4>>
      [] oob_type = 3  -> <<4, 4>>
      [] oob_type = 4  -> <<oob_length>>
      [] oob_type = 13 -> <<>>
      [] OTHER         -> <<>>

OobTypes == {1, 2, 3, 4, 13}

\* The sizes of the reads get_block makes for the block blk, in order, when
\* none of them is cut short.
ReadSizes(st, blk) ==
    IF blk.bt # 13 /\ st.stream_end THEN <<1>>
    ELSE IF blk.bt <= 7 THEN <<1, 1>>
    ELSE IF blk.bt = 9 THEN <<1, 1>>
    ELSE IF blk.bt = 10 THEN <<1, 2>>
    ELSE IF blk.bt = 13
            THEN <<1, 1, 2>> \o OobPayloadSizes(blk.oob_type, blk.oob_length)
    ELSE <<1>>

RECURSIVE SumSeq(_)
SumSeq(q) == IF q = <<>> THEN 0 ELSE q[1] + SumSeq(Tail(q))

\* FluxImageBlock.read over a file that holds `left` more bytes (-1: enough):
\* the reads made, the last of them short if the file ends in it.
RECURSIVE ReadsOf(_, _, _)
ReadsOf(what, sizes, left) ==
    IF sizes = <<>> THEN <<>>
    ELSE IF left >= 0 /\ left < sizes[1]
            THEN <<Read(what, sizes[1], left)>>
    ELSE <<Read(what, sizes[1], sizes[1])>>
         \o ReadsOf(what, Tail(sizes), IF left < 0 THEN left ELSE left - sizes[1])

IsShort(read) == read.got < read.wanted

\* KyroFluxStreamOOBBlock.factory and __init__ with the read_oob_payload of
\* the subclasses, all reads made in full.
oob_block(st, blk) ==
    LET read_length == SumSeq(OobPayloadSizes(blk.oob_type, blk.oob_length))
        offset  == st.stream_offset + 4 + read_length
        payload == CASE blk.oob_type = 2 ->
                          [st EXCEPT !.index_count = @ + 1]
                     [] blk.oob_type = 3 ->
                          [st EXCEPT !.stream_end = TRUE]
                     [] blk.oob_type = 13 ->
                          [st EXCEPT !.logical_eof = TRUE]
                     [] OTHER -> st
        index   == [index_number |-> st.index_count,
                    next_flux_stream_pos |-> blk.pos,
                    sample_counter |-> blk.sample]
        pending == st.pending_index_blocks
    IN  IF blk.oob_type \notin OobTypes
           THEN [st |-> st, raised |-> "Exception: Unknown OOB block type"]
        ELSE IF blk.oob_type = 4 /\ blk.oob_length = 0
           THEN [st |-> st, raised |-> "IndexError"]
        ELSE IF blk.oob_type = 4 /\ ~blk.nul
           THEN [st |-> st, raised |-> "Exception: Info text not null-terminated"]
        ELSE IF ~payload.logical_eof /\ blk.oob_length # read_length
           THEN [st |-> st, raised |-> "Exception: Internal error: OOB block length"]
        ELSE [st |-> [payload EXCEPT
                        !.stream_offset = st.block_offset,
                        !.oob_blocks = Append(@, blk.oob_type),
                        !.pending_index_blocks =
                            IF blk.oob_type = 2
                               THEN [k \in DOMAIN pending \cup {blk.pos} |->
                                       IF k = blk.pos THEN index ELSE pending[k]]
                               ELSE @],
              raised |-> ""]

\* KyroFluxStream.get_block on the block blk, of which the file holds blk.left
\* bytes (-1: all of it).
get_block(st, blk) ==
    LET at    == [st EXCEPT !.block_offset = st.stream_offset]
        sizes == ReadSizes(at, blk)
        reads == ReadsOf("block", sizes, blk.left)
        short == reads # <<>> /\ IsShort(reads[Len(reads)])
        after(n) == [at EXCEPT !.stream_offset = @ + n]
        res   ==
            IF IsShort(reads[1])
               THEN [st |-> [at EXCEPT !.logical_eof = TRUE], raised |-> ""]
            ELSE IF blk.bt # 13 /\ at.stream_end
               THEN [st |-> at, raised |-> "Exception: In-band data past stream end"]
            ELSE IF short
               THEN [st |-> at, raised |-> "EOFError"]
            ELSE IF blk.bt <= 7
               THEN [st |-> flux_change(after(2), blk.bt * 256 + blk.b1), raised |-> ""]
            ELSE IF blk.bt = 8
               THEN [st |-> after(1), raised |-> ""]
            ELSE IF blk.bt = 9
               THEN [st |-> after(2), raised |-> ""]
            ELSE IF blk.bt = 10
               THEN [st |-> after(3), raised |-> ""]
            ELSE IF blk.bt = 11
               THEN [st |-> [after(1) EXCEPT !.overflow = @ + 65536], raised |-> ""]
            ELSE IF blk.bt = 12
               THEN [st |-> after(1), raised |-> "TypeError"]
            ELSE IF blk.bt = 13
               THEN oob_block(at, blk)
            ELSE [st |-> flux_change(after(1), blk.bt), raised |-> ""]
    IN  [st |-> res.st, raised |-> res.raised, reads |-> reads]

\* The block a finished KyroFluxStream is: the fields the dump and the delta
\* iterator can see (the class sets no index_pos).
KyroFluxStream(st) ==
    [reader |-> "kfsf", flux_trans_abs |-> st.flux_trans_abs,
     has_rel |-> FALSE, flux_trans_rel |-> <<>>,
     index_abs |-> st.index_abs, oob_blocks |-> st.oob_blocks,
     pending_index_blocks |-> st.pending_index_blocks]

\* The blocks a stream may hold at a position: in-band blocks of every type
\* and OOB blocks of every type, one unknown type included, whole.
InBand(bt, b1) ==
    [bt |-> bt, b1 |-> b1, oob_type |-> 0, oob_length |-> 0, pos |-> 0,
     sample |-> 0, nul |-> TRUE, left |-> -1]

Oob(oob_type, oob_length, pos, sample, nul) ==
    [bt |-> 13, b1 |-> 0, oob_type |-> oob_type, oob_length |-> oob_length,
     pos |-> pos, sample |-> sample, nul |-> nul, left |-> -1]

WholeBlocks(st) ==
    {InBand(0, 0), InBand(0, 5), InBand(1, 0)}
    \cup {InBand(bt, 0) : bt \in {8, 9, 10, 11, 12, 14}}
    \cup {Oob(1, len, 0, 0, TRUE) : len \in {8, 7}}
    \cup {Oob(2, 12, pos, sample, TRUE) :
             pos \in {st.stream_offset, st.stream_offset + 1}, sample \in {0, 3}}
    \cup {Oob(3, 8, 0, 0, TRUE), Oob(5, 0, 0, 0, TRUE), Oob(13, 13, 0, 0, TRUE)}
    \cup {Oob(4, 0, 0, 0, TRUE), Oob(4, 2, 0, 0, TRUE), Oob(4, 2, 0, 0, FALSE)}

\* The same blocks, and those of them the file ends in.
StreamBlocks(st) ==
    WholeBlocks(st)
    \cup {[InBand(14, 0) EXCEPT !.left = 0]}
    \cup {[blk EXCEPT !.left = 1] : blk \in {InBand(0, 5), InBand(10, 0)}}
    \cup {[blk EXCEPT !.left = left] :
             blk \in {Oob(2, 12, 0, 0, TRUE), Oob(4, 2, 0, 0, TRUE)},
             left \in {1, 5}}

\* KFSF.__init__ lines 215-221: the file is a zip archive of `entries` track
\* streams (track00.0.raw, track00.1.raw) or a single stream.
KfsfOpen ==
    /\ rd_format = "kfsf"
    /\ rd_pc = "open"
    /\ \E zip \in BOOLEAN, entries \in 1..2 :
         /\ ~zip => entries = 1
         /\ rd_st' = [zip |-> zip, entries |-> entries, entry |-> 1,
                      calls |-> 0, stream |-> KfsStart, printed |-> <<>>]
    /\ rd_pc' = "stream"
    /\ UNCHANGED <<rd_format, rd_error, rd_blocks, rd_reads>>

\* KFSF.__init__ lines 238-239 (the zip loop's except clause), or the
\* exception leaving the constructor.
KfsfRaise(raised) ==
    IF rd_st.zip
       THEN /\ rd_st' = [rd_st EXCEPT !.printed = Append(@, raised),
                                      !.entry = @ + 1,
                                      !.stream = KfsStart]
            /\ rd_pc' = IF rd_st.entry = rd_st.entries THEN "done" ELSE "stream"
            /\ UNCHANGED rd_error
       ELSE /\ ReadFails(raised)
            /\ UNCHANGED rd_st

\* One turn of the loop of KyroFluxStream.__init__ (lines 200-201).  A file
\* that is no zip archive is read from where zipfile.ZipFile (line 216) left
\* it, which is its end.
KfsfGetBlock ==
    /\ rd_format = "kfsf"
    /\ rd_pc = "stream"
    /\ ~rd_st.stream.logical_eof
    /\ rd_st.calls < MaxBlocks
    /\ \E blk \in StreamBlocks(rd_st.stream) :
         LET r == get_block(rd_st.stream, blk)
         IN  /\ rd_st.zip \/ blk.left = 0
             /\ rd_reads' = rd_reads \o r.reads
             /\ IF r.raised # ""
                   THEN KfsfRaise(r.raised)
                   ELSE /\ rd_st' = [rd_st EXCEPT
                                       !.stream = r.st,
                                       !.calls = @ + 1,
                                       !.printed =
                                           IF IsShort(r.reads[1])
                                              THEN Append(@, "unexpected EOF")
                                              ELSE @]
                        /\ UNCHANGED <<rd_pc, rd_error>>
    /\ UNCHANGED <<rd_format, rd_blocks>>

\* The end of KyroFluxStream.__init__ and the assignment of lines 221 and 237.
KfsfStreamDone ==
    /\ rd_format = "kfsf"
    /\ rd_pc = "stream"
    /\ rd_st.stream.logical_eof
    /\ rd_blocks' = WithBlock(rd_blocks,
                              IF rd_st.zip THEN <<0, rd_st.entry - 1, 1>>
                                           ELSE <<0, 0, 1>>,
                              KyroFluxStream(rd_st.stream))
    /\ rd_st' = [rd_st EXCEPT !.entry = @ + 1, !.stream = KfsStart]
    /\ rd_pc' = IF rd_st.entry = rd_st.entries THEN "done" ELSE "stream"
    /\ UNCHANGED <<rd_format, rd_error, rd_reads>>

----------------------------------------------------------------------------
(* scp.py: SuperCard Pro images.                                            *)

\* SCP.__init__ lines 73-74: (0, 0, 1)[head_cfg] and (2, 1, 1)[head_cfg], a
\* negative index counting from the end of the tuple.
TupleIndex(head_cfg) == IF head_cfg < 0 THEN head_cfg + 3 ELSE head_cfg

main_headSwapped(head_cfg) == <<0, 1, 0>>[TupleIndex(head_cfg) + 1]

main_head(head_cfg) == <<0, 0, 1>>[TupleIndex(head_cfg) + 1]

heads(head_cfg) == <<2, 1, 1>>[TupleIndex(head_cfg) + 1]

HeadCfgs == {-1, 0, 1, 2, 3}

\* The running sums of the cell times (SCPBlock.__init__ lines 36-38).
RECURSIVE RunningSum(_, _)
RunningSum(time_inc, cells) ==
    IF cells = <<>> THEN <<>>
    ELSE <<time_inc + cells[1]>> \o RunningSum(time_inc + cells[1], Tail(cells))

\* SCPBlock.__init__ lines 31-41 over the cell times of each revolution.
RECURSIVE SCPRevolutions(_, _)
SCPRevolutions(st, revs) ==
    IF revs = <<>> THEN st
    ELSE LET abs == RunningSum(st.time_inc, revs[1])
             end == IF abs = <<>> THEN st.time_inc ELSE abs[Len(abs)]
         IN  SCPRevolutions(
                [time_inc |-> end,
                 flux_trans_abs |-> st.flux_trans_abs \o abs,
                 index_pos |-> IF Len(revs[1]) > 0
                                  THEN Append(st.index_pos, end)
                                  ELSE st.index_pos],
                Tail(revs))

SCPBlock(revs) ==
    LET st == SCPRevolutions([time_inc |-> 0, flux_trans_abs |-> <<>>,
                              index_pos |-> <<>>], revs)
    IN  FluxBlock("scp", st.flux_trans_abs, st.index_pos)

\* The cell times of a 16-bit big-endian field.
CellTimes == {0, 3}

\* The cell times of `revolutions` revolutions, at most `room` cells in all.
RevolutionSets(revolutions, room) ==
    IF revolutions = 1
       THEN {<<r>> : r \in UNION {[1..n -> CellTimes] : n \in 0..room}}
       ELSE UNION {{<<r1, r2>> :
                      r2 \in UNION {[1..n -> CellTimes] : n \in 0..(room - Len(r1))}} :
                   r1 \in UNION {[1..n -> CellTimes] : n \in 0..room}}

\* SCP.__init__ lines 59-84: the header and the table of track pointers
\* (0: no track; 1: some offset).  The 13 header bytes after the magic are
\* read field by field with struct.unpack over a plain f.read.
ScpOpen ==
    /\ rd_format = "scp"
    /\ rd_pc = "open"
    /\ \E outcome \in {"bad magic", "short header", "short table", "read"},
          head_cfg \in HeadCfgs, revolutions \in 1..2,
          starttrack \in 0..1, endtrack \in 0..1 :
         /\ starttrack <= endtrack
         /\ outcome \in {"bad magic", "short header"} =>
               head_cfg = 0 /\ revolutions = 1 /\ starttrack = 0 /\ endtrack = 0
         /\ outcome = "short table" => head_cfg \in {0, 1, 2}
         /\ CASE outcome = "bad magic" ->
                   /\ ReadFails("Exception: bad magic")
                   /\ \E got \in {0, 3} :
                         rd_reads' = Append(rd_reads, Read("magic", 3, got))
                   /\ UNCHANGED rd_st
              [] outcome = "short header" ->
                   /\ ReadFails("struct.error")
                   /\ rd_reads' = rd_reads \o <<Read("magic", 3, 3),
                                                Read("header", 13, 5)>>
                   /\ UNCHANGED rd_st
              [] outcome = "short table" ->
                   /\ ReadFails("struct.error")
                   /\ rd_reads' = rd_reads \o <<Read("magic", 3, 3),
                                                Read("header", 13, 13),
                                                Read("track_ptrs", 4, 2)>>
                   /\ UNCHANGED rd_st
              [] outcome = "read" ->
                   IF TupleIndex(head_cfg) \notin 0..2
                      THEN /\ ReadFails("IndexError")
                           /\ rd_reads' = rd_reads \o <<Read("magic", 3, 3),
                                                        Read("header", 9, 9)>>
                           /\ UNCHANGED rd_st
                      ELSE LET n == (endtrack - starttrack + 1)
                                    * (IF heads(head_cfg) = 1 THEN 2 ELSE 1)
                           IN  \E track_ptrs \in [1..n -> {0, 1}] :
                                 /\ rd_st' = [head_cfg |-> head_cfg,
                                              revolutions |-> revolutions,
                                              starttrack |-> starttrack,
                                              endtrack |-> endtrack,
                                              track_ptrs |-> track_ptrs,
                                              track |-> starttrack,
                                              bound |-> FALSE,
                                              chs |-> <<0, 0, 0>>,
                                              payload |-> 0]
                                 /\ rd_reads' = rd_reads \o
                                       <<Read("magic", 3, 3),
                                         Read("header", 13, 13),
                                         Read("track_ptrs", 4 * n, 4 * n)>>
                                 /\ rd_pc' = "tracks"
                                 /\ UNCHANGED rd_error
    /\ UNCHANGED <<rd_format, rd_blocks>>

\* One turn of the loop of SCP.__init__ lines 87-98, with SCPBlock.__init__
\* when the track has a pointer.
ScpTrack ==
    /\ rd_format = "scp"
    /\ rd_pc = "tracks"
    /\ rd_st.track <= rd_st.endtrack
    /\ LET track == rd_st.track
           hds   == heads(rd_st.head_cfg)
           chs   == <<track \div hds, main_head(rd_st.head_cfg) + (track % hds), 1>>
           next  == [rd_st EXCEPT !.track = @ + 1, !.bound = TRUE, !.chs = chs]
       IN  IF track + 1 > Len(rd_st.track_ptrs)
              THEN /\ ReadFails("IndexError")
                   /\ UNCHANGED <<rd_st, rd_blocks, rd_reads>>
           ELSE IF rd_st.track_ptrs[track + 1] # 0
              THEN \E outcome \in {"bad magic", "short header", "short data", "read"},
                      revs \in RevolutionSets(rd_st.revolutions,
                                              MaxPayload - rd_st.payload) :
                     LET cells  == SumSeq([r \in 1..Len(revs) |-> Len(revs[r])])
                         header == <<Read("magic", 3, 3), Read("trk_no", 1, 1),
                                     Read("revolutions", 12 * rd_st.revolutions,
                                          12 * rd_st.revolutions)>>
                     IN  /\ outcome \in {"bad magic", "short header"} => cells = 0
                         /\ outcome = "short data" => cells > 0
                         /\ CASE outcome = "bad magic" ->
                                   /\ ReadFails("Exception: bad magic")
                                   /\ \E got \in {1, 3} :
                                         rd_reads' = Append(rd_reads, Read("magic", 3, got))
                                   /\ UNCHANGED <<rd_st, rd_blocks>>
                              [] outcome = "short header" ->
                                   /\ ReadFails("EOFError")
                                   /\ rd_reads' = rd_reads \o
                                         <<Read("magic", 3, 3), Read("trk_no", 1, 1),
                                           Read("revolutions", 12 * rd_st.revolutions, 6)>>
                                   /\ UNCHANGED <<rd_st, rd_blocks>>
                              [] outcome = "short data" ->
                                   /\ ReadFails("EOFError")
                                   /\ rd_reads' = rd_reads \o header
                                         \o <<Read("cells", 2 * cells, 2 * cells - 1)>>
                                   /\ UNCHANGED <<rd_st, rd_blocks>>
                              [] outcome = "read" ->
                                   /\ rd_blocks' = WithBlock(rd_blocks, chs, SCPBlock(revs))
                                   /\ rd_reads' = rd_reads \o header
                                         \o <<Read("cells", 2 * cells, 2 * cells)>>
                                   /\ rd_st' = [next EXCEPT !.payload = @ + cells]
                                   /\ UNCHANGED <<rd_pc, rd_error>>
           ELSE IF hds # 1
              THEN /\ rd_blocks' = WithBlock(rd_blocks, chs, FluxImageDummyBlock)
                   /\ rd_st' = next
                   /\ UNCHANGED <<rd_pc, rd_error, rd_reads>>
           ELSE IF ~rd_st.bound
              THEN /\ ReadFails("UnboundLocalError")
                   /\ UNCHANGED <<rd_st, rd_blocks, rd_reads>>
           ELSE /\ rd_blocks' = WithBlock(rd_blocks, rd_st.chs, rd_blocks[rd_st.chs])
                /\ rd_st' = [rd_st EXCEPT !.track = @ + 1]
                /\ UNCHANGED <<rd_pc, rd_error, rd_reads>>
    /\ UNCHANGED rd_format

\* The loop of SCP.__init__ has run over every track.
ScpDone ==
    /\ rd_format = "scp"
    /\ rd_pc = "tracks"
    /\ rd_st.track > rd_st.endtrack
    /\ rd_pc' = "done"
    /\ UNCHANGED <<rd_format, rd_error, rd_st, rd_blocks, rd_reads>>

ReadInit ==
    /\ rd_format \in {"dfi", "kfsf", "scp"}
    /\ rd_pc = "open"
    /\ rd_error = ""
    /\ rd_st = IF rd_format = "dfi" THEN DfiStart ELSE EmptyMap
    /\ rd_blocks = EmptyMap
    /\ rd_reads = <<>>

----------------------------------------------------------------------------
(* Flux blocks: what the readers put into the block map.                    *)

StrictlyIncreasing(q) == \A i \in 1..(Len(q) - 1) : q[i] < q[i + 1]

\* The values the delta iterator of fluximage.py lines 65-81 yields, before
\* the division by the (positive) frequency.
DeltaIterValues(block) == generate_flux_trans_rel(block)

\* C11 as stated: in every block of the block map flux_trans_abs is strictly
\* increasing and every value of the delta iterator is strictly positive.
C11_Original ==
    \A key \in DOMAIN rd_blocks :
        LET block  == rd_blocks[key]
            values == DeltaIterValues(block)
        IN  /\ StrictlyIncreasing(block.flux_trans_abs)
            /\ \A i \in 1..Len(values) : values[i] > 0

\* A read the end of the file cut short: it got some of its bytes but not
\* all, or none of a block's announced data.  (A read that finds the file
\* ended where a block would begin is left out.)
Truncated(read) ==
    /\ IsShort(read)
    /\ read.got > 0 \/ read.what = "data"

\* C12 as stated: once a read has been cut short by the end of the file the
\* reader has failed; it neither goes on reading nor ends as if the file had
\* been whole.
C12_Original ==
    (\E i \in 1..Len(rd_reads) : Truncated(rd_reads[i])) => rd_pc = "failed"

\* The per-byte rule of C13 for DFI version 2 data.
ClaimedStepV2(st, b) ==
    IF b = 0 THEN st
    ELSE IF b = 127 THEN [st EXCEPT !.time_inc = @ + 127]
    ELSE IF b >= 128
            THEN [st EXCEPT !.time_inc = @ + (b % 128),
                            !.index_pos = Append(@, st.time_inc + (b % 128))]
    ELSE [st EXCEPT !.time_inc = @ + b,
                    !.flux_trans_abs = Append(@, st.time_inc + b)]

RECURSIVE ClaimedParseV2(_)
ClaimedParseV2(data) ==
    IF data = <<>> THEN ParseStart
    ELSE ClaimedStepV2(ClaimedParseV2(SubSeq(data, 1, Len(data) - 1)),
                       data[Len(data)])

\* C13 as stated: a DFI version 2 block holds the transitions and index
\* pulses the per-byte rule gives for its data bytes.
C13_Original ==
    (rd_format = "dfi" /\ rd_st.version = 2) =>
        \A key \in DOMAIN rd_blocks :
            LET block   == rd_blocks[key]
                claimed == ClaimedParseV2(block.raw_data)
            IN  /\ block.flux_trans_abs = claimed.flux_trans_abs
                /\ block.index_pos = claimed.index_pos

\* The SCP reader has read the header and is in or past its track loop.
ScpLoading == rd_format = "scp" /\ rd_pc \in {"tracks", "done"}

\* The track entries the loop has dealt with so far.
TracksSeen == rd_st.starttrack..(rd_st.track - 1)

\* The key of track entry t as C17 states the mapping.
ClaimedCHS(head_cfg, t) ==
    CASE head_cfg = -1 -> <<t \div 2, t % 2, 1>>
      [] head_cfg = 0  -> <<t, 0, 1>>
      [] head_cfg = 1  -> <<t, 1, 1>>

\* C17 as stated: head_cfg -1 is both heads, 0 is head 0 only, 1 is head 1
\* only, and every loaded block has the key (cylinder, head, 1) of its track
\* entry under that mapping.
C17_Original ==
    (ScpLoading /\ rd_st.head_cfg \in {-1, 0, 1}) =>
        DOMAIN rd_blocks \subseteq {ClaimedCHS(rd_st.head_cfg, t) : t \in TracksSeen}

\* The key of track entry t as the reader maps head_cfg.
AmendedCHS(head_cfg, t) ==
    CASE head_cfg = 0          -> <<t \div 2, t % 2, 1>>
      [] head_cfg = 1          -> <<t, 0, 1>>
      [] head_cfg \in {2, -1}  -> <<t, 1, 1>>

\* C17 as amended: head_cfg 0 is both heads (track entries alternate head 0
\* and head 1 of the same cylinder), 1 is head 0 only, 2 (and -1) is head 1
\* only, and every loaded block has the key (cylinder, head, 1) of its track
\* entry under that mapping.
C17_Amended ==
    (ScpLoading /\ rd_st.head_cfg \in {-1, 0, 1, 2}) =>
        DOMAIN rd_blocks \subseteq {AmendedCHS(rd_st.head_cfg, t) : t \in TracksSeen}

C17_Witness ==
    /\ ScpLoading
    /\ rd_pc = "done"
    /\ \/ rd_st.head_cfg = -1 /\ DOMAIN rd_blocks = {<<0, 1, 1>>}
       \/ rd_st.head_cfg = 0 /\ DOMAIN rd_blocks = {<<0, 0, 1>>, <<0, 1, 1>>}

----------------------------------------------------------------------------
(* The claims about the KryoFlux stream parser.  Each is stated of get_block *)
(* on every block that may stand, whole, at the position a stream being      *)
(* parsed has reached.                                                       *)

KfsfParsing ==
    rd_format = "kfsf" /\ rd_pc = "stream" /\ ~rd_st.stream.logical_eof

\* The in-band flux blocks: Flux2 (0x00..0x07), Flux3 (0x0C), Flux1
\* (0x0E..0xFF).
IsFlux(blk) == blk.bt <= 7 \/ blk.bt = 12 \/ blk.bt >= 14

\* The cell count a flux block encodes (the bytes of a Flux3 count are b1
\* and a high byte of 0).
CellCount(blk) ==
    IF blk.bt <= 7 THEN (blk.bt * 256) + blk.b1
    ELSE IF blk.bt = 12 THEN blk.b1
    ELSE blk.bt

\* The flux blocks get_block may meet in the stream st before its StreamEnd.
FluxBlocksAt(st) ==
    IF st.stream_end THEN {} ELSE {blk \in WholeBlocks(st) : IsFlux(blk)}

\* C22 as claimed: every in-band flux block (Flux1, Flux2, Flux3) appends
\* exactly one absolute transition, the previous absolute count plus the
\* overflow accumulated since the previous flux plus the cell count, and the
\* overflow accumulator is 0 afterwards.
C22_Original ==
    KfsfParsing =>
        \A blk \in FluxBlocksAt(rd_st.stream) :
            LET st == rd_st.stream
                r  == get_block(st, blk)
            IN  /\ r.raised = ""
                /\ r.st.flux_trans_abs =
                       Append(st.flux_trans_abs,
                              st.flux_sample_counter + st.overflow + CellCount(blk))
                /\ r.st.overflow = 0

\* C23 as claimed: an Index OOB is pending once read; the flux block that
\* stands at the in-band offset an Index OOB names resolves it: the absolute
\* sample count at that flux is appended as an index position and the block
\* leaves the pending set; any other flux block leaves the index positions
\* and the pending set as they are.
C23_Original ==
    KfsfParsing =>
        \A blk \in FluxBlocksAt(rd_st.stream) :
            LET st      == rd_st.stream
                r       == get_block(st, blk)
                pending == st.pending_index_blocks
            IN  r.raised = "" =>
                    IF st.stream_offset \in DOMAIN pending
                       THEN /\ r.st.index_abs =
                                   Append(st.index_abs, r.st.flux_sample_counter)
                            /\ DOMAIN r.st.pending_index_blocks =
                                   DOMAIN pending \ {st.stream_offset}
                       ELSE /\ r.st.index_abs = st.index_abs
                            /\ r.st.pending_index_blocks = pending

\* The encoded length of an in-band block.
EncodedLength(bt) ==
    IF bt <= 7 \/ bt = 9 THEN 2
    ELSE IF bt = 10 \/ bt = 12 THEN 3
    ELSE 1

\* C24 as claimed: an OOB block leaves the in-band stream offset where it
\* was at the start of the block; an in-band block advances it by its
\* encoded length (Flux1, Nop1, Ovl16: 1; Flux2, Nop2: 2; Flux3, Nop3: 3).
C24_Original ==
    KfsfParsing =>
        \A blk \in WholeBlocks(rd_st.stream) :
            LET st == rd_st.stream
                r  == get_block(st, blk)
            IN  IF blk.bt = 13
                   THEN r.raised = "" => r.st.stream_offset = st.stream_offset
                   ELSE ~st.stream_end =>
                           /\ r.raised = ""
                           /\ r.st.stream_offset =
                                  st.stream_offset + EncodedLength(blk.bt)

----------------------------------------------------------------------------
(* SpecIMD: an image is built by write_sector calls, written, and read back. *)

\* Bound: the number of write_sector calls that build the image.
MaxSectors == 2

\* n bytes b.
Filled(n, b) == Tuple([i \in 1..n |-> b], n)

\* Sector data: 128 equal bytes, 128 bytes not all equal, 256 equal bytes,
\* and 3 bytes (no sector size).
ImdData ==
    {Filled(128, 229), <<1>> \o Filled(127, 0), Filled(256, 229), <<1, 2, 3>>}

ImdIdle ==
    /\ imd_pc = "off"
    /\ imd_error = ""
    /\ imd_file = <<>>
    /\ imd_reread = EmptyMap

\* imd = ImageDisk()
ImdInit ==
    /\ imd_pc = "build"
    /\ imd_error = ""
    /\ imd_file = <<>>
    /\ imd_reread = EmptyMap

\* The number of sectors the image holds.
RECURSIVE SectorCount(_, _)
SectorCount(tracks, coords) ==
    IF coords = {} THEN 0
    ELSE LET tc == CHOOSE c \in coords : TRUE
         IN  Len(tracks[tc]) + SectorCount(tracks, coords \ {tc})

\* A call imd.write_sector(mode, cylinder, head, sector, data, deleted).
ImdWriteSector ==
    /\ imd_pc = "build"
    /\ SectorCount(imd_tracks, DOMAIN imd_tracks) < MaxSectors
    /\ \E mode \in {0, 3}, cylinder \in 0..1, sector \in 1..2,
          data \in ImdData, deleted \in BOOLEAN :
         LET w == write_sector(imd_tracks, mode, cylinder, 0, sector, data,
                               deleted, FALSE)
         IN  /\ imd_tracks' = w.tracks
             /\ imd_error' = w.error
             /\ imd_pc' = IF w.error = "" THEN "build" ELSE "build_failed"
    /\ UNCHANGED <<imd_file, imd_reread>>

\* imd.write(f)
ImdWrite ==
    /\ imd_pc = "build"
    /\ LET w == write(imd_tracks)
       IN  /\ imd_file' = w.bytes
           /\ imd_error' = w.error
           /\ imd_pc' = IF w.error = "" THEN "written" ELSE "write_failed"
    /\ UNCHANGED <<imd_tracks, imd_reread>>

\* ImageDisk(f) on the file written.
ImdRead ==
    /\ imd_pc = "written"
    /\ LET r == ImageDisk(imd_file)
       IN  /\ imd_reread' = r.tracks
           /\ imd_error' = r.error
           /\ imd_pc' = IF r.error = "" THEN "read" ELSE "read_failed"
    /\ UNCHANGED <<imd_tracks, imd_file>>

\* The (mode, cylinder, head, sector, deleted, data) tuples of an image.
SectorTuples(tracks) ==
    UNION {{<<tracks[tc][i].mode, tc[1], tc[2], tracks[tc][i].key,
              tracks[tc][i].deleted, tracks[tc][i].data>> :
               i \in 1..Len(tracks[tc])} :
           tc \in DOMAIN tracks}

\* The track holds sectors of one mode (the precondition of C14).
OneMode(track) == \A i, j \in 1..Len(track) : track[i].mode = track[j].mode

\* The track holds sectors of different size codes.
MixedSizes(track) == \E i, j \in 1..Len(track) : track[i].size_code # track[j].size_code

\* C14 as stated: an image with one mode per track, written and read back,
\* gives the same set of (mode, cylinder, head, sector, deleted, data) tuples.
C14_Original ==
    (imd_pc \in {"written", "write_failed", "read", "read_failed"}
       /\ \A tc \in DOMAIN imd_tracks : OneMode(imd_tracks[tc]))
    => (imd_pc = "read" => SectorTuples(imd_reread) = SectorTuples(imd_tracks))

\* The bytes C18 gives for a track: header, sector-number map, size codes
\* in sector-map order when they differ, sector records.
ClaimedTrackBytes(tracks, tc) ==
    LET track == tracks[tc]
    IN  <<track[1].mode, tc[1], tc[2], Len(track),
          IF MixedSizes(track) THEN 255 ELSE track[1].size_code>>
        \o Keys(track)
        \o (IF MixedSizes(track)
               THEN Tuple([i \in 1..Len(track) |-> track[i].size_code], Len(track))
               ELSE <<>>)
        \o SectorRecords(track)

RECURSIVE ClaimedTracksBytes(_, _)
ClaimedTracksBytes(tracks, tl) ==
    IF tl = <<>> THEN <<>>
    ELSE ClaimedTrackBytes(tracks, tl[1]) \o ClaimedTracksBytes(tracks, Tail(tl))

\* C18 as stated: writing an image with a track of different size codes (and
\* one mode per track) completes without error and gives the header 0xFF,
\* the sector map, the size codes and the records of that track.
C18_Original ==
    (imd_pc \in {"written", "write_failed"}
       /\ \A tc \in DOMAIN imd_tracks : OneMode(imd_tracks[tc])
       /\ \E mc \in DOMAIN imd_tracks : MixedSizes(imd_tracks[mc]))
    => /\ imd_pc = "written"
       /\ imd_file = ImdHeader \o <<26>>
                     \o ClaimedTracksBytes(imd_tracks, SortedCoords(DOMAIN imd_tracks))

\* C29 as claimed: a write_sector call that fails raises an error and leaves
\* the image as it was, the set of track coordinates and every track's
\* sectors, so that no track of the image is without sectors.
C29_Original ==
    [][ (imd_pc = "build" /\ imd_pc' = "build_failed") =>
          /\ imd_error' # ""
          /\ imd_tracks' = imd_tracks
          /\ \A tc \in DOMAIN imd_tracks' : imd_tracks'[tc] # <<>> ]_vars

----------------------------------------------------------------------------
(* The specifications.                                                      *)

InitCRC == CrcInit /\ AdpllIdle /\ RunIdle /\ ReadIdle /\ ImdIdle

NextCRC ==
    \/ CrcMakeTable /\ UNCHANGED <<adpllVars, runVars, readVars, imdVars>>
    \/ CrcReset /\ UNCHANGED <<adpllVars, runVars, readVars, imdVars>>
    \/ CrcComp /\ UNCHANGED <<adpllVars, runVars, readVars, imdVars>>
    \/ CrcVerify /\ UNCHANGED <<adpllVars, runVars, readVars, imdVars>>

SpecCRC == InitCRC /\ [][NextCRC]_vars

InitADPLL == AdpllInit /\ CrcIdle /\ RunIdle /\ ReadIdle /\ ImdIdle

NextADPLL ==
    \/ AdpllConstruct /\ UNCHANGED <<crcVars, runVars, readVars, imdVars>>
    \/ AdpllConstructEmpty /\ UNCHANGED <<crcVars, runVars, readVars, imdVars>>
    \/ AdpllNextZero /\ UNCHANGED <<crcVars, runVars, readVars, imdVars>>
    \/ AdpllTransition /\ UNCHANGED <<crcVars, runVars, readVars, imdVars>>
    \/ AdpllExhausted /\ UNCHANGED <<crcVars, runVars, readVars, imdVars>>

SpecADPLL == InitADPLL /\ [][NextADPLL]_vars

\* The for loop of dump_track (fluxtoimd.py lines 72-73) calls __next__ again
\* after every bit until the iteration ends: a step that is possible is taken.
SpecADPLLFair == SpecADPLL /\ WF_vars(NextADPLL)

InitRun == RunInit /\ AdpllIdle /\ ReadIdle /\ ImdIdle

NextRun ==
    \/ DumpTrackMissing /\ UNCHANGED <<adpllVars, readVars, imdVars>>
    \/ DumpTrackEmpty /\ UNCHANGED <<adpllVars, readVars, imdVars>>
    \/ DumpTrackBegin /\ UNCHANGED <<adpllVars, readVars, imdVars>>
    \/ DumpTrackId /\ UNCHANGED <<adpllVars, readVars, imdVars>>
    \/ TrackDone /\ UNCHANGED <<adpllVars, readVars, imdVars>>
    \/ WriteImage /\ UNCHANGED <<adpllVars, readVars, imdVars>>

SpecRun == InitRun /\ [][NextRun]_vars

InitRead == ReadInit /\ CrcIdle /\ AdpllIdle /\ RunIdle /\ ImdIdle

NextRead ==
    \/ DfiOpen /\ UNCHANGED <<crcVars, adpllVars, runVars, imdVars>>
    \/ DfiHeaderEOF /\ UNCHANGED <<crcVars, adpllVars, runVars, imdVars>>
    \/ DfiBlock /\ UNCHANGED <<crcVars, adpllVars, runVars, imdVars>>
    \/ KfsfOpen /\ UNCHANGED <<crcVars, adpllVars, runVars, imdVars>>
    \/ KfsfGetBlock /\ UNCHANGED <<crcVars, adpllVars, runVars, imdVars>>
    \/ KfsfStreamDone /\ UNCHANGED <<crcVars, adpllVars, runVars, imdVars>>
    \/ ScpOpen /\ UNCHANGED <<crcVars, adpllVars, runVars, imdVars>>
    \/ ScpTrack /\ UNCHANGED <<crcVars, adpllVars, runVars, imdVars>>
    \/ ScpDone /\ UNCHANGED <<crcVars, adpllVars, runVars, imdVars>>

SpecRead == InitRead /\ [][NextRead]_vars

InitIMD == ImdInit /\ CrcIdle /\ AdpllIdle /\ RunIdle /\ ReadIdle

NextIMD ==
    \/ ImdWriteSector /\ UNCHANGED <<crcVars, adpllVars, dumpVars, readVars>>
    \/ ImdWrite /\ UNCHANGED <<crcVars, adpllVars, dumpVars, readVars>>
    \/ ImdRead /\ UNCHANGED <<crcVars, adpllVars, dumpVars, readVars>>

SpecIMD == InitIMD /\ [][NextIMD]_vars

====
